---- MODULE Spec2Model ----
(***************************************************************************)
(* State-machine model of the pico-cs MQTT gateway: the subscription       *)
(* registry and publisher of internal/gateway, and the command stations,   *)
(* locos and ownership rules of internal/devices.                          *)
(*                                                                         *)
(* Representation.  A topic is the sequence of its levels (the result of   *)
(* topicSplit); the registry is keyed by the levels without the root.      *)
(* A regular expression is represented by the set of loco names it         *)
(* matches.  A raw MQTT payload is a JSON text, represented by its kind    *)
(* and value ([k |-> "invalid"] is a text that is no JSON); a decoded or   *)
(* returned Go value carries its dynamic type ([t |-> "float64", ...]).    *)
(* A Go channel is the sequence of the messages buffered in it.            *)
(***************************************************************************)
EXTENDS Integers, Sequences, FiniteSets, TLC

VARIABLES
    config,       \* CSConfig of every command station: primary and secondary Filter
    csLocos,      \* CS.locos: the loco names assigned to a command station
    primary,      \* Loco.primary: the primary command station of a loco, or Nil
    secondaries,  \* Loco.secondaries: the secondary command stations of a loco
    subs,         \* Gateway.subscriptions: topic without root -> list of subscriptions
    ret,          \* what the last registration call returned
    phase,        \* position of the main program
    listening,    \* Gateway.listening
    inbox,        \* messages the broker has still to deliver to Gateway.handler
    nExt,         \* number of messages published by other MQTT clients so far
    nSeq,         \* number of messages delivered to Gateway.handler so far
    disp,         \* Gateway.handler: idle, or sending the commands of one message
    hndCh,        \* CS.hndCh of every command station
    worker,       \* CS.cmdHandler of every command station: its position and pending send
    dev,          \* state of the device behind every command station's client
    connClosed,   \* whether the command station's client connection is closed
    pubCh,        \* Gateway.pubCh
    errCh,        \* Gateway.errCh
    pubPend,      \* Gateway.publish: the error message it is about to send, if any
    bus,          \* the messages written to the broker, in order
    calc          \* inputs and results of the speed conversions

regVars == <<config, csLocos, primary, secondaries, subs, ret>>
pipeVars == <<phase, listening, inbox, nExt, nSeq, disp, hndCh, worker, dev,
              connClosed, pubCh, errCh, pubPend, bus>>
vars == <<config, csLocos, primary, secondaries, subs, ret, phase, listening, inbox,
          nExt, nSeq, disp, hndCh, worker, dev, connClosed, pubCh, errCh, pubPend,
          bus, calc>>

Nil == "nil"

\* ------------------------------------------------------------------ bounds
\* Capacity of every channel (stands for DefChanSize in the model).
ChanSize == 2
\* Number of messages other MQTT clients publish in a run.
MaxMsgs == 2
\* Number of speed commands in a run of SpecSpeed.
MaxSpeedMsgs == 1
\* Number of expressions in a list of a filter in SpecFilter.
MaxPatterns == 2
\* Number of messages other MQTT clients publish in a run of SpecQueue.
MaxQueueMsgs == 4
\* Number of characters of a topic level in SpecTopic.
MaxNameLen == 1

\* Subscriptions per topic in SpecSubs.
MaxSubs == 3

\* Calls of Gateway.Listen in SpecListen.
MaxListens == 2

\* --------------------------------------------------------------- constants
TopicRoot == "pico-cs"
classError == "error"

CSNames == {"cs01", "cs02"}
LocoNames == {"br01", "br02"}

\* The loco configurations: decoder address and function mapping.
LocoConfig ==
    [l \in LocoNames |->
        IF l = "br01" THEN [Addr |-> 1, Fcts |-> [f \in {"light"} |-> 0]]
                      ELSE [Addr |-> 2, Fcts |-> [f \in {} |-> 0]]]

addr(l) == LocoConfig[l].Addr
Addrs == {addr(l) : l \in LocoNames}
FctNos == {0}

\* ----------------------------------------------------------------- filters
\* Regular expressions, each given by the set of loco names it matches.
ReAll == LocoNames
ReBr01 == {"br01"}
ReBr02 == {"br02"}

MatchString(re, name) == name \in re

\* filter.includes without the loop over the exclude expressions.
includesNoExcludes(f, name) == \E i \in 1..Len(f.Incls) : MatchString(f.Incls[i], name)

\* filter.includes: at least one include expression matches and no exclude
\* expression matches.
includes(f, name) ==
    LET incl == \E i \in 1..Len(f.Incls) : MatchString(f.Incls[i], name)
    IN  IF incl
        THEN ~ \E i \in 1..Len(f.Excls) : MatchString(f.Excls[i], name)
        ELSE FALSE

\* NewFilter: no include and no exclude expression.
NewFilter == [Incls |-> <<>>, Excls |-> <<>>]
FilterAll == [Incls |-> <<ReAll>>, Excls |-> <<>>]
FilterNotBr02 == [Incls |-> <<ReBr01, ReAll>>, Excls |-> <<ReBr02>>]
FilterBr02 == [Incls |-> <<ReBr02>>, Excls |-> <<>>]

\* ---------------------------------------------------------------- registry
\* A handler function: the closure's kind and the values it captured.
HndFn(kind, c, a, no, publish) ==
    [kind |-> kind, cs |-> c, addr |-> a, no |-> no, publish |-> publish]

\* Gateway.Subscribe: append a subscription to the list of the topic.
Subscribe(s, ch, owner, topic, fn) ==
    LET old == IF topic \in DOMAIN s THEN s[topic] ELSE <<>>
        new == Append(old, [owner |-> owner, fn |-> fn, hndCh |-> ch])
    IN  (topic :> new) @@ s

\* Gateway.Unsubscribe cutting every subscription of the owner out of the list.
UnsubscribeEvery(s, owner, topic) ==
    IF topic \notin DOMAIN s THEN s
    ELSE [s EXCEPT ![topic] = SelectSeq(@, LAMBDA e : e.owner # owner)]

\* Gateway.Unsubscribe: overwrite the first subscription of the owner with the
\* last one of the list and cut the list by one.
Unsubscribe(s, owner, topic) ==
    IF topic \notin DOMAIN s THEN s
    ELSE LET list == s[topic]
             l == Len(list)
             hits == {i \in 1..l : list[i].owner = owner}
         IN  IF hits = {} THEN s
             ELSE LET i == CHOOSE k \in hits : \A j \in hits : k <= j
                      moved == [list EXCEPT ![i] = list[l]]
                  IN  [s EXCEPT ![topic] = SubSeq(moved, 1, l - 1)]

\* The topics and handlers of a list, subscribed one after the other.
RECURSIVE SubscribeAll(_, _, _)
SubscribeAll(s, c, items) ==
    IF items = <<>> THEN s
    ELSE SubscribeAll(Subscribe(s, c, c, items[1][1], items[1][2]), c, Tail(items))

RECURSIVE UnsubscribeAll(_, _, _)
UnsubscribeAll(s, c, topics) ==
    IF topics = <<>> THEN s
    ELSE UnsubscribeAll(Unsubscribe(s, c, topics[1]), c, Tail(topics))

\* Loco.iterFcts: the function names of a loco, in some order.
RECURSIVE SetToSeq(_)
SetToSeq(S) ==
    IF S = {} THEN <<>>
    ELSE LET x == CHOOSE y \in S : TRUE IN <<x>> \o SetToSeq(S \ {x})

RECURSIVE Concat(_)
Concat(ss) == IF ss = <<>> THEN <<>> ELSE ss[1] \o Concat(Tail(ss))

FctNames(l) == SetToSeq(DOMAIN LocoConfig[l].Fcts)
FctNo(l, f) == LocoConfig[l].Fcts[f]

\* CS.subscribe: the command station's own command topics.
csSubscribe(s, c) ==
    SubscribeAll(s, c,
        << << <<"cs", c, "temp", "get">>, HndFn("getTemp", c, 0, 0, TRUE) >>,
           << <<"cs", c, "mte", "get">>, HndFn("getMTE", c, 0, 0, TRUE) >>,
           << <<"cs", c, "mte", "set">>, HndFn("setMTE", c, 0, 0, TRUE) >> >>)

\* CS.unsubscribe.
csUnsubscribe(s, c) ==
    UnsubscribeAll(s, c,
        << <<"cs", c, "tmp", "get">>,
           <<"cs", c, "mte", "get">>,
           <<"cs", c, "mte", "set">> >>)

\* CS.subscribeLocoActions: the command topics of a loco this station controls.
subscribeLocoActions(s, c, l) ==
    LET a == addr(l)
        fct(f) ==
            << << <<"loco", l, f, "get">>, HndFn("getLocoFct", c, a, FctNo(l, f), TRUE) >>,
               << <<"loco", l, f, "set">>, HndFn("setLocoFct", c, a, FctNo(l, f), TRUE) >>,
               << <<"loco", l, f, "toggle">>, HndFn("toggleLocoFct", c, a, FctNo(l, f), TRUE) >> >>
        names == FctNames(l)
    IN  SubscribeAll(s, c,
        << << <<"loco", l, "dir", "get">>, HndFn("getLocoDir", c, a, 0, TRUE) >>,
           << <<"loco", l, "dir", "set">>, HndFn("setLocoDir", c, a, 0, TRUE) >>,
           << <<"loco", l, "dir", "toggle">>, HndFn("toggleLocoDir", c, a, 0, TRUE) >>,
           << <<"loco", l, "speed", "get">>, HndFn("getLocoSpeed", c, a, 0, TRUE) >>,
           << <<"loco", l, "speed", "set">>, HndFn("setLocoSpeed", c, a, 0, TRUE) >>,
           << <<"loco", l, "speed", "stop">>, HndFn("stopLoco", c, a, 0, TRUE) >>,
           << <<"loco", l, "speed", "add">>, HndFn("addLocoSpeed", c, a, 0, TRUE) >> >>
        \o Concat([i \in 1..Len(names) |-> fct(names[i])]))

\* CS.subscribeLocoEvents calling the subscription of the command topics.
subscribeLocoEventsAsActions(s, c, l) == subscribeLocoActions(s, c, l)

\* CS.subscribeLocoEvents: the event topics of a loco another station controls.
subscribeLocoEvents(s, c, l) ==
    LET a == addr(l)
        names == FctNames(l)
    IN  SubscribeAll(s, c,
        << << <<"loco", l, "dir">>, HndFn("setLocoDir", c, a, 0, FALSE) >>,
           << <<"loco", l, "speed">>, HndFn("setLocoSpeed", c, a, 0, FALSE) >> >>
        \o [i \in 1..Len(names) |->
              << <<"loco", l, names[i]>>, HndFn("setLocoFct", c, a, FctNo(l, names[i]), FALSE) >>])

\* CS.unsubscribeLocoActions leaving the registry as it is.
unsubscribeLocoActionsNone(s, c, l) == s

\* CS.unsubscribeLocoActions.
unsubscribeLocoActions(s, c, l) ==
    LET names == FctNames(l)
        fct(f) == << <<"loco", l, f, "get">>, <<"loco", l, f, "set">>,
                     <<"loco", l, f, "toggle">> >>
    IN  UnsubscribeAll(s, c,
        << <<"loco", l, "dir", "get">>, <<"loco", l, "dir", "set">>,
           <<"loco", l, "dir", "toggle">>, <<"loco", l, "speed", "get">>,
           <<"loco", l, "speed", "set">>, <<"loco", l, "speed", "stop">>,
           <<"loco", l, "speed", "add">> >>
        \o Concat([i \in 1..Len(names) |-> fct(names[i])]))

\* CS.unsubscribeLocoEvents.
unsubscribeLocoEvents(s, c, l) ==
    LET names == FctNames(l)
    IN  UnsubscribeAll(s, c,
        << <<"loco", l, "dir">>, <<"loco", l, "speed">> >>
        \o [i \in 1..Len(names) |-> <<"loco", l, names[i]>>])

\* --------------------------------------------------------------- ownership
\* The registration state as one record, so that calls can be composed.
RegState ==
    [csLocos |-> csLocos, primary |-> primary, secondaries |-> secondaries,
     subs |-> subs, ret |-> ret]

Ret(op, c, l, added, err) == [op |-> op, cs |-> c, loco |-> l, added |-> added, err |-> err]

\* Loco.setPrimary without the test for a primary: cs takes the loco over.
setPrimaryOverwrite(r, c, l) ==
    [r EXCEPT !.primary[l] = c, !.ret = Ret("AddLoco", c, l, FALSE, Nil)]

\* Loco.setPrimary: an error when the loco has a primary, else cs becomes it.
setPrimary(r, c, l) ==
    IF r.primary[l] # Nil
    THEN [r EXCEPT !.ret = Ret("AddLoco", c, l, FALSE, "already assigned to primary")]
    ELSE [r EXCEPT !.primary[l] = c, !.ret = Ret("AddLoco", c, l, FALSE, Nil)]

\* Loco.unsetPrimary.
unsetPrimary(r, c, l) ==
    IF r.primary[l] # c THEN r ELSE [r EXCEPT !.primary[l] = Nil]

\* Loco.addSecondary: an error when cs is a secondary already.
addSecondary(r, c, l) ==
    IF c \in r.secondaries[l]
    THEN [r EXCEPT !.ret = Ret("AddLoco", c, l, FALSE, "already assigned to secondary")]
    ELSE [r EXCEPT !.secondaries[l] = @ \cup {c}, !.ret = Ret("AddLoco", c, l, FALSE, Nil)]

\* Loco.delSecondary.
delSecondary(r, c, l) ==
    IF c \notin r.secondaries[l] THEN r ELSE [r EXCEPT !.secondaries[l] = @ \ {c}]

isPrimary(r, c, l) == r.primary[l] = c

\* CS.AddLoco without the return that ends the primary branch.
AddLocoFallThrough(r, c, l) ==
    IF l \in r.csLocos[c]
    THEN [r EXCEPT !.ret = Ret("AddLoco", c, l, FALSE, "already assigned")]
    ELSE LET p == IF includes(config[c].primary, l) THEN setPrimary(r, c, l) ELSE r
             pOk == includes(config[c].primary, l) /\ p.ret.err = Nil
             p2 == IF pOk
                   THEN [p EXCEPT !.csLocos[c] = @ \cup {l},
                                  !.subs = subscribeLocoActions(@, c, l)]
                   ELSE p
         IN  IF includes(config[c].primary, l) /\ ~pOk THEN p
             ELSE IF includes(config[c].secondary, l)
             THEN LET q == addSecondary(p2, c, l)
                  IN  IF q.ret.err # Nil THEN q
                      ELSE [q EXCEPT !.csLocos[c] = @ \cup {l},
                                     !.subs = subscribeLocoEvents(@, c, l),
                                     !.ret = Ret("AddLoco", c, l, TRUE, Nil)]
             ELSE [p2 EXCEPT !.ret = Ret("AddLoco", c, l, pOk, Nil)]

\* CS.AddLoco looking at the secondary filter before the primary filter.
AddLocoSecondaryFirst(r, c, l) ==
    IF l \in r.csLocos[c]
    THEN [r EXCEPT !.ret = Ret("AddLoco", c, l, FALSE, "already assigned")]
    ELSE IF includes(config[c].secondary, l)
    THEN LET q == addSecondary(r, c, l)
         IN  IF q.ret.err # Nil THEN q
             ELSE [q EXCEPT !.csLocos[c] = @ \cup {l},
                            !.subs = subscribeLocoEvents(@, c, l),
                            !.ret = Ret("AddLoco", c, l, TRUE, Nil)]
    ELSE IF includes(config[c].primary, l)
    THEN LET p == setPrimary(r, c, l)
         IN  IF p.ret.err # Nil THEN p
             ELSE [p EXCEPT !.csLocos[c] = @ \cup {l},
                            !.subs = subscribeLocoActions(@, c, l),
                            !.ret = Ret("AddLoco", c, l, TRUE, Nil)]
    ELSE [r EXCEPT !.ret = Ret("AddLoco", c, l, FALSE, Nil)]

\* CS.AddLoco keeping a loco that neither filter includes in cs.locos.
AddLocoNoMatchAssigns(r, c, l) ==
    IF l \in r.csLocos[c]
    THEN [r EXCEPT !.ret = Ret("AddLoco", c, l, FALSE, "already assigned")]
    ELSE IF includes(config[c].primary, l)
    THEN LET p == setPrimary(r, c, l)
         IN  IF p.ret.err # Nil THEN p
             ELSE [p EXCEPT !.csLocos[c] = @ \cup {l},
                            !.subs = subscribeLocoActions(@, c, l),
                            !.ret = Ret("AddLoco", c, l, TRUE, Nil)]
    ELSE IF includes(config[c].secondary, l)
    THEN LET q == addSecondary(r, c, l)
         IN  IF q.ret.err # Nil THEN q
             ELSE [q EXCEPT !.csLocos[c] = @ \cup {l},
                            !.subs = subscribeLocoEvents(@, c, l),
                            !.ret = Ret("AddLoco", c, l, TRUE, Nil)]
    ELSE [r EXCEPT !.csLocos[c] = @ \cup {l}, !.ret = Ret("AddLoco", c, l, FALSE, Nil)]

\* CS.AddLoco.
AddLocoR(r, c, l) ==
    IF l \in r.csLocos[c]
    THEN [r EXCEPT !.ret = Ret("AddLoco", c, l, FALSE, "already assigned")]
    ELSE IF includes(config[c].primary, l)
    THEN LET p == setPrimary(r, c, l)
         IN  IF p.ret.err # Nil THEN p
             ELSE [p EXCEPT !.csLocos[c] = @ \cup {l},
                            !.subs = subscribeLocoActions(@, c, l),
                            !.ret = Ret("AddLoco", c, l, TRUE, Nil)]
    ELSE IF includes(config[c].secondary, l)
    THEN LET q == addSecondary(r, c, l)
         IN  IF q.ret.err # Nil THEN q
             ELSE [q EXCEPT !.csLocos[c] = @ \cup {l},
                            !.subs = subscribeLocoEvents(@, c, l),
                            !.ret = Ret("AddLoco", c, l, TRUE, Nil)]
    ELSE [r EXCEPT !.ret = Ret("AddLoco", c, l, FALSE, Nil)]

\* The loop of CS.close over the locos of the station.
RECURSIVE closeLocos(_, _, _)
closeLocos(r, c, ls) ==
    IF ls = <<>> THEN r
    ELSE LET l == ls[1]
             r2 == IF isPrimary(r, c, l)
                   THEN [unsetPrimary(r, c, l) EXCEPT
                            !.subs = unsubscribeLocoActions(@, c, l)]
                   ELSE [delSecondary(r, c, l) EXCEPT
                            !.subs = unsubscribeLocoEvents(@, c, l)]
         IN  closeLocos(r2, c, Tail(ls))

\* CS.close, the registration part: give up every loco, then unsubscribe the
\* station's own topics.
closeR(r, c) ==
    LET r2 == closeLocos(r, c, SetToSeq(r.csLocos[c]))
    IN  [r2 EXCEPT !.subs = csUnsubscribe(@, c), !.ret = Ret("close", c, Nil, FALSE, Nil)]

SetReg(r) ==
    /\ csLocos' = r.csLocos
    /\ primary' = r.primary
    /\ secondaries' = r.secondaries
    /\ subs' = r.subs
    /\ ret' = r.ret

\* ------------------------------------------------------------------ values
GoNil == [t |-> "nil", v |-> Nil]
Float64(v) == [t |-> "float64", v |-> v]
Bool(v) == [t |-> "bool", v |-> v]
Uint(v) == [t |-> "uint", v |-> v]
Str(v) == [t |-> "string", v |-> v]

JNumber(v) == [k |-> "number", v |-> v]
JBool(v) == [k |-> "bool", v |-> v]
JString(v) == [k |-> "string", v |-> v]
JNull == [k |-> "null", v |-> Nil]
JObject(v) == [k |-> "object", v |-> v]
\* A payload that is no JSON text, the empty payload included.
JInvalid == [k |-> "invalid", v |-> Nil]

\* json.Unmarshal into a value of type any.
Unmarshal(raw) ==
    CASE raw.k = "number" -> [err |-> Nil, value |-> Float64(raw.v)]
      [] raw.k = "bool" -> [err |-> Nil, value |-> Bool(raw.v)]
      [] raw.k = "string" -> [err |-> Nil, value |-> Str(raw.v)]
      [] raw.k = "null" -> [err |-> Nil, value |-> GoNil]
      [] raw.k = "object" -> [err |-> Nil, value |-> [t |-> "map", v |-> raw.v]]
      [] OTHER -> [err |-> "json: syntax error", value |-> GoNil]

\* json.Marshal of a value a handler returns.
Marshal(value) ==
    CASE value.t \in {"uint", "float64"} -> JNumber(value.v)
      [] value.t = "bool" -> JBool(value.v)
      [] value.t = "string" -> JString(value.v)
      [] value.t = "map" -> JObject(value.v)
      [] OTHER -> JNull

\* The ends of the range of Go's int.  An int has 64 bits; the model's integers
\* have 32, so the range is scaled to 31 bits.  No number the model adds comes
\* near an end except the ends themselves.
IntMax == 1073741823
IntMin == -1073741824

\* The largest uint, of as many bits as an int; 1 more wraps around to 0.
UintMax == 2 * IntMax + 1

\* uint(f64) for a float64 that is a whole number: the number when a uint can
\* hold it; otherwise the result depends on the implementation (a negative
\* number wraps around or becomes 0, one too large becomes an end of the
\* range).
UintOfFloat(f) ==
    IF f < 0 THEN {0, (UintMax + f) + 1}
    ELSE IF f > UintMax THEN {0, UintMax}
    ELSE {f}

\* ------------------------------------------------------------------- speed
\* speed127.speed128 without the case of speed 0.
speed127_speed128NoZero(s) == s + 1

\* speed127.speed128: bus speed to device speed, skipping the emergency stop.
speed127_speed128(s) == IF s = 0 THEN 0 ELSE IF s = UintMax THEN 0 ELSE s + 1

\* speed128.speed127: device speed to bus speed.
speed128_speed127(s) == IF s <= 1 THEN 0 ELSE s - 1

\* a + b on ints: the sum wraps around at the ends of the range.
IntAdd(a, b) ==
    LET r == a + b
    IN  IF r > IntMax THEN IntMin + (r - IntMax - 1)
        ELSE IF r < IntMin THEN IntMax - (IntMin - r - 1)
        ELSE r

\* int(f64) for a float64 that is a whole number: the number when an int can
\* hold it; otherwise the result depends on the implementation (the smallest
\* int on amd64, the nearest end of the range on arm64).
IntOfFloat(f) ==
    IF f > IntMax THEN {IntMin, IntMax}
    ELSE IF f < IntMin THEN {IntMin}
    ELSE {f}

\* speed127.add
speed127_add(s, delta) ==
    IF delta = 0 THEN s
    ELSE LET speed == IntAdd(s, delta)
         IN  CASE speed < 0 -> 0
               [] speed > 126 -> 126
               [] OTHER -> speed

\* speed128.add
speed128_add(s, delta) == speed127_speed128(speed127_add(speed128_speed127(s), delta))

\* ------------------------------------------------------------------ device
\* The device behind a client: main track enable, and direction, speed and
\* functions of every decoder address.
DevInit ==
    [mte |-> FALSE,
     locos |-> [a \in Addrs |-> [dir |-> TRUE, speed |-> 0, fcts |-> [n \in FctNos |-> FALSE]]]]

Temperature == 20

\* A call of the client: it fails, or (on an open connection) it is carried out
\* and answers with the value the device holds afterwards.
ClientFail(d) == [ok |-> FALSE, val |-> Nil, dev |-> d]
ClientCall(d, closed, val, d2) ==
    {ClientFail(d)} \cup (IF closed THEN {} ELSE {[ok |-> TRUE, val |-> val, dev |-> d2]})

client_Temp(d, closed) == ClientCall(d, closed, Temperature, d)
client_MTE(d, closed) == ClientCall(d, closed, d.mte, d)
client_SetMTE(d, closed, enabled) ==
    ClientCall(d, closed, enabled, [d EXCEPT !.mte = enabled])
client_LocoDir(d, closed, a) == ClientCall(d, closed, d.locos[a].dir, d)
client_SetLocoDir(d, closed, a, dir) ==
    ClientCall(d, closed, dir, [d EXCEPT !.locos[a].dir = dir])
client_ToggleLocoDir(d, closed, a) ==
    ClientCall(d, closed, ~d.locos[a].dir, [d EXCEPT !.locos[a].dir = ~@])
client_LocoSpeed128(d, closed, a) == ClientCall(d, closed, d.locos[a].speed, d)
client_SetLocoSpeed128(d, closed, a, speed) ==
    ClientCall(d, closed, speed, [d EXCEPT !.locos[a].speed = speed])
client_LocoFct(d, closed, a, no) == ClientCall(d, closed, d.locos[a].fcts[no], d)
client_SetLocoFct(d, closed, a, no, fct) ==
    ClientCall(d, closed, fct, [d EXCEPT !.locos[a].fcts[no] = fct])
client_ToggleLocoFct(d, closed, a, no) ==
    ClientCall(d, closed, ~d.locos[a].fcts[no], [d EXCEPT !.locos[a].fcts[no] = ~@])

\* ---------------------------------------------------------------- handlers
\* What a handler returns: (value, err), and the device state it leaves.
HndRet(value, err, d) == [value |-> value, err |-> err, dev |-> d]
DeviceErr == "device error"

Speed127(v) == Uint(speed128_speed127(v))

\* The value a handler returns for the client's answer: a float64, a bool, or
\* the bus speed of a device speed.
Answer(type, v) == IF type = "speed127" THEN Speed127(v) ELSE [t |-> type, v |-> v]

\* The handler returns the client's answer as it is: return client.X(...).
Direct(calls, type) ==
    {IF r.ok THEN HndRet(Answer(type, r.val), Nil, r.dev) ELSE HndRet(GoNil, DeviceErr, r.dev) :
        r \in calls}

\* The handler of a set command returning the answer whatever publish says.
QuietAnswers(calls, publish, type) ==
    {IF ~r.ok THEN HndRet(GoNil, DeviceErr, r.dev)
     ELSE HndRet(Answer(type, r.val), Nil, r.dev) : r \in calls}

\* The handler of a set command: nil instead of the answer when publish is false.
Quiet(calls, publish, type) ==
    {IF ~r.ok THEN HndRet(GoNil, DeviceErr, r.dev)
     ELSE IF ~publish THEN HndRet(GoNil, Nil, r.dev)
     ELSE HndRet(Answer(type, r.val), Nil, r.dev) : r \in calls}

getTemp(d, closed, payload) == Direct(client_Temp(d, closed), "float64")
getMTE(d, closed, payload) == Direct(client_MTE(d, closed), "bool")
setMTE(d, closed, payload) ==
    IF payload.t # "bool" THEN {HndRet(GoNil, "setMTE: invalid enabled type", d)}
    ELSE Direct(client_SetMTE(d, closed, payload.v), "bool")
getLocoDir(d, closed, a, payload) == Direct(client_LocoDir(d, closed, a), "bool")
\* CS.setLocoDir without the test of the type assertion's ok: a payload that
\* is no bool is taken as false.
setLocoDirUnchecked(d, closed, a, publish, payload) ==
    Quiet(client_SetLocoDir(d, closed, a, IF payload.t = "bool" THEN payload.v ELSE FALSE),
          publish, "bool")

setLocoDir(d, closed, a, publish, payload) ==
    IF payload.t # "bool" THEN {HndRet(GoNil, "setLocoDir: invalid dir type", d)}
    ELSE Quiet(client_SetLocoDir(d, closed, a, payload.v), publish, "bool")
toggleLocoDir(d, closed, a, payload) == Direct(client_ToggleLocoDir(d, closed, a), "bool")
getLocoSpeed(d, closed, a, payload) == Direct(client_LocoSpeed128(d, closed, a), "speed127")

\* CS.setLocoSpeed with the payload written to the device as it is.
setLocoSpeedRaw(d, closed, a, publish, payload) ==
    IF payload.t # "float64" THEN {HndRet(GoNil, "setLocoSpeed: invalid speed type", d)}
    ELSE Quiet(client_SetLocoSpeed128(d, closed, a, payload.v), publish, "speed127")

setLocoSpeed(d, closed, a, publish, payload) ==
    IF payload.t # "float64" THEN {HndRet(GoNil, "setLocoSpeed: invalid speed type", d)}
    ELSE UNION {Quiet(client_SetLocoSpeed128(d, closed, a, speed127_speed128(s)),
                      publish, "speed127") : s \in UintOfFloat(payload.v)}

\* CS.stopLoco writing the stop speed 0 instead of the emergency stop.
stopLocoZero(d, closed, a, payload) ==
    Direct(client_SetLocoSpeed128(d, closed, a, 0), "speed127")

stopLoco(d, closed, a, payload) ==
    Direct(client_SetLocoSpeed128(d, closed, a, 1), "speed127")

\* CS.addLocoSpeed adding the delta to the speed of a device just switched on
\* instead of the speed it read.
addLocoSpeedLost(d, closed, a, payload) ==
    IF payload.t # "float64" THEN {HndRet(GoNil, "addLocoSpeed: invalid delta type", d)}
    ELSE UNION {IF ~r.ok THEN {HndRet(GoNil, DeviceErr, r.dev)}
                ELSE UNION {Direct(client_SetLocoSpeed128(r.dev, closed, a,
                                       speed128_add(DevInit.locos[a].speed, delta)),
                                   "speed127") :
                            delta \in IntOfFloat(payload.v)} :
                r \in client_LocoSpeed128(d, closed, a)}

addLocoSpeed(d, closed, a, payload) ==
    IF payload.t # "float64" THEN {HndRet(GoNil, "addLocoSpeed: invalid delta type", d)}
    ELSE UNION {IF ~r.ok THEN {HndRet(GoNil, DeviceErr, r.dev)}
                ELSE UNION {Direct(client_SetLocoSpeed128(r.dev, closed, a,
                                       speed128_add(r.val, delta)), "speed127") :
                            delta \in IntOfFloat(payload.v)} :
                r \in client_LocoSpeed128(d, closed, a)}
getLocoFct(d, closed, a, no, payload) == Direct(client_LocoFct(d, closed, a, no), "bool")
setLocoFct(d, closed, a, no, publish, payload) ==
    IF payload.t # "bool" THEN {HndRet(GoNil, "setLocoFct: invalid fct type", d)}
    ELSE Quiet(client_SetLocoFct(d, closed, a, no, payload.v), publish, "bool")
toggleLocoFct(d, closed, a, no, payload) ==
    Direct(client_ToggleLocoFct(d, closed, a, no), "bool")

\* msg.Fn(msg.Value): the call of the closure a subscription holds.
CallFn(fn, payload, d, closed) ==
    CASE fn.kind = "getTemp" -> getTemp(d, closed, payload)
      [] fn.kind = "getMTE" -> getMTE(d, closed, payload)
      [] fn.kind = "setMTE" -> setMTE(d, closed, payload)
      [] fn.kind = "getLocoDir" -> getLocoDir(d, closed, fn.addr, payload)
      [] fn.kind = "setLocoDir" -> setLocoDir(d, closed, fn.addr, fn.publish, payload)
      [] fn.kind = "toggleLocoDir" -> toggleLocoDir(d, closed, fn.addr, payload)
      [] fn.kind = "getLocoSpeed" -> getLocoSpeed(d, closed, fn.addr, payload)
      [] fn.kind = "setLocoSpeed" -> setLocoSpeed(d, closed, fn.addr, fn.publish, payload)
      [] fn.kind = "stopLoco" -> stopLoco(d, closed, fn.addr, payload)
      [] fn.kind = "addLocoSpeed" -> addLocoSpeed(d, closed, fn.addr, payload)
      [] fn.kind = "getLocoFct" -> getLocoFct(d, closed, fn.addr, fn.no, payload)
      [] fn.kind = "setLocoFct" -> setLocoFct(d, closed, fn.addr, fn.no, fn.publish, payload)
      [] fn.kind = "toggleLocoFct" -> toggleLocoFct(d, closed, fn.addr, fn.no, payload)

\* ---------------------------------------------------------------- messages
\* HndMsg: the topic without root, the handler and the decoded payload; seq is
\* the number of the inbound message it was made for.
HndMsg(topicStrs, fn, value, seq) ==
    [TopicStrs |-> topicStrs, Fn |-> fn, Value |-> value, seq |-> seq]

\* pubMsg and errMsg; src names the task that made the message.
PubMsg(topic, retain, value, seq, src) ==
    [topic |-> topic, retain |-> retain, value |-> value, seq |-> seq, src |-> src]
ErrMsg(topic, retain, err, seq, src) ==
    [topic |-> topic, retain |-> retain, err |-> err, seq |-> seq, src |-> src]

\* A message written to the broker.
BusMsg(topic, retain, payload, seq, src) ==
    [topic |-> topic, retain |-> retain, payload |-> payload, seq |-> seq, src |-> src]

\* A message the broker delivers to the gateway.
InMsg(topic, payload) == [topic |-> topic, payload |-> payload]

errorTopic == <<TopicRoot, classError>>

\* topicStrs[:len(topicStrs)-1]
DropLast(topicStrs) == SubSeq(topicStrs, 1, Len(topicStrs) - 1)

\* Gateway.Publish: the message put on pubCh.
Publish(topicStrs, retain, value, seq, src) ==
    PubMsg(<<TopicRoot>> \o topicStrs, retain, value, seq, src)

\* Gateway.PublishErr: the message put on errCh.
PublishErr(topicStrs, retain, err, seq, src) ==
    ErrMsg(<<TopicRoot>> \o topicStrs, retain, err, seq, src)

HasRoom(ch) == Len(ch) < ChanSize

\* A send that overtakes the messages waiting in the channel.
SendFirst(ch, m) == <<m>> \o ch

\* ch <- m: the message joins the channel behind the ones waiting in it.
Send(ch, m) == Append(ch, m)

\* CS.cmdHandler after a return out of its loop.
WorkerReturned == [pc |-> "returned", q |-> Nil, out |-> Nil]

DispIdle == [pc |-> "idle", msg |-> Nil, list |-> <<>>, i |-> 0]
WorkerIdle == [pc |-> "recv", q |-> Nil, out |-> Nil]

\* -------------------------------------------------------------- operations
\* CS.AddLoco, called by itself on a command station that is not closed (main
\* registers the locos of a station before it closes the station).
AddLoco(c, l) ==
    /\ disp.pc = "idle"
    /\ ~connClosed[c]
    /\ SetReg(AddLocoR(RegState, c, l))
    /\ UNCHANGED <<config, calc>>
    /\ UNCHANGED pipeVars

\* CS.close: the locos and topics are given up and the client is closed.
CloseCS(c) ==
    /\ disp.pc = "idle"
    /\ SetReg(closeR(RegState, c))
    /\ connClosed' = [connClosed EXCEPT ![c] = TRUE]
    /\ UNCHANGED <<config, calc, listening, inbox, nExt, nSeq, disp, hndCh, worker, dev,
                   pubCh, errCh, pubPend, bus>>

\* CS.close, called by itself at any time, once for a command station.
Close(c) == ~connClosed[c] /\ CloseCS(c) /\ UNCHANGED phase

\* deviceSets.register going on after an error and returning what the last
\* call of AddLoco returned.
RECURSIVE registerRKeepGoing(_, _)
registerRKeepGoing(r, pairs) ==
    IF pairs = <<>> THEN r
    ELSE registerRKeepGoing(AddLocoR(r, pairs[1][1], pairs[1][2]), Tail(pairs))

\* deviceSets.register: AddLoco for every command station and every loco, in
\* the order the two maps happen to be ranged over, up to the first error.
RECURSIVE registerR(_, _)
registerR(r, pairs) ==
    IF pairs = <<>> THEN r
    ELSE LET r2 == AddLocoR(r, pairs[1][1], pairs[1][2])
         IN  IF r2.ret.err # Nil THEN r2 ELSE registerR(r2, Tail(pairs))

Orders(S) == {o \in [1..Cardinality(S) -> S] : \A x \in S : \E i \in DOMAIN o : o[i] = x}

Register ==
    /\ phase = "init"
    /\ \E co \in Orders(CSNames), lo \in [1..Cardinality(CSNames) -> Orders(LocoNames)] :
         LET n == Cardinality(LocoNames)
             pairs == [k \in 1..(Cardinality(CSNames) * n) |->
                          <<co[((k - 1) \div n) + 1],
                            lo[((k - 1) \div n) + 1][((k - 1) % n) + 1]>>]
             r == registerR(RegState, pairs)
         IN  /\ SetReg(r)
             /\ phase' = IF r.ret.err # Nil THEN "exit" ELSE "registered"
    /\ UNCHANGED <<config, calc, listening, inbox, nExt, nSeq, disp, hndCh, worker, dev,
                   connClosed, pubCh, errCh, pubPend, bus>>

\* gateway.New subscribing to the broker itself, before any registration.
ListenInNew ==
    /\ phase = "init"
    /\ ~listening
    /\ listening' = TRUE
    /\ UNCHANGED <<phase, inbox, nExt, nSeq, disp, hndCh, worker, dev, connClosed, pubCh,
                   errCh, pubPend, bus, calc>>
    /\ UNCHANGED regVars

\* Gateway.Listen, called by main after the registration.
Listen ==
    /\ phase = "registered"
    /\ ~listening
    /\ listening' = TRUE
    /\ phase' = "running"
    /\ UNCHANGED <<inbox, nExt, nSeq, disp, hndCh, worker, dev, connClosed, pubCh, errCh,
                   pubPend, bus, calc>>
    /\ UNCHANGED regVars

\* CSSet.Close on the way out of main: every command station is closed once.
Shutdown(c) ==
    /\ phase \in {"running", "closing"}
    /\ ~connClosed[c]
    /\ CloseCS(c)
    /\ phase' = "closing"

\* Another MQTT client publishes a message below the root topic.
ExtPublish(inputs, max) ==
    /\ listening
    /\ nExt < max
    /\ \E m \in inputs : inbox' = Append(inbox, m)
    /\ nExt' = nExt + 1
    /\ UNCHANGED <<phase, listening, nSeq, disp, hndCh, worker, dev, connClosed, pubCh,
                   errCh, pubPend, bus, calc>>
    /\ UNCHANGED regVars

\* Gateway.handler reporting a topic nobody subscribed to as an error.
handlerNoEntryError(s, msg, seq) ==
    LET u == Unmarshal(msg.payload)
        topicNoRoot == Tail(msg.topic)
    IN  IF u.err # Nil
        THEN [errs |-> <<ErrMsg(msg.topic, FALSE, u.err, seq, "gw")>>,
              value |-> GoNil, list |-> <<>>]
        ELSE IF topicNoRoot \notin DOMAIN s
        THEN [errs |-> <<ErrMsg(msg.topic, FALSE, "no subscription", seq, "gw")>>,
              value |-> GoNil, list |-> <<>>]
        ELSE [errs |-> <<>>, value |-> u.value, list |-> s[topicNoRoot]]

\* Gateway.handler without the return after a decode error: the error is
\* reported and the nil value still goes to the subscriptions of the topic.
handlerDecodeNoReturn(s, msg, seq) ==
    LET u == Unmarshal(msg.payload)
        topicNoRoot == Tail(msg.topic)
        errs == IF u.err # Nil THEN <<ErrMsg(msg.topic, FALSE, u.err, seq, "gw")>> ELSE <<>>
    IN  IF topicNoRoot \notin DOMAIN s
        THEN [errs |-> errs, value |-> GoNil, list |-> <<>>]
        ELSE [errs |-> errs, value |-> u.value, list |-> s[topicNoRoot]]

\* Gateway.handler leaving its loop after the first subscription of the topic.
handlerFirstOnly(s, msg, seq) ==
    LET u == Unmarshal(msg.payload)
        topicNoRoot == Tail(msg.topic)
    IN  IF u.err # Nil
        THEN [errs |-> <<ErrMsg(msg.topic, FALSE, u.err, seq, "gw")>>,
              value |-> GoNil, list |-> <<>>]
        ELSE IF topicNoRoot \notin DOMAIN s
        THEN [errs |-> <<>>, value |-> GoNil, list |-> <<>>]
        ELSE [errs |-> <<>>, value |-> u.value, list |-> SubSeq(s[topicNoRoot], 1, 1)]

\* Gateway.handler up to its loop: the payload is decoded, and an error
\* reported, before the subscriptions of the topic without root are looked up.
handler(s, msg, seq) ==
    LET u == Unmarshal(msg.payload)
        topicNoRoot == Tail(msg.topic)
    IN  IF u.err # Nil
        THEN [errs |-> <<ErrMsg(msg.topic, FALSE, u.err, seq, "gw")>>,
              value |-> GoNil, list |-> <<>>]
        ELSE IF topicNoRoot \notin DOMAIN s
        THEN [errs |-> <<>>, value |-> GoNil, list |-> <<>>]
        ELSE [errs |-> <<>>, value |-> u.value, list |-> s[topicNoRoot]]

\* Gateway.handler up to the lookup of the subscriptions.
HandlerStart ==
    /\ listening
    /\ disp.pc = "idle"
    /\ inbox # <<>>
    /\ LET msg == Head(inbox)
           seq == nSeq + 1
           h == handler(subs, msg, seq)
       IN  /\ inbox' = Tail(inbox)
           /\ nSeq' = seq
           /\ h.errs # <<>> => HasRoom(errCh)
           /\ errCh' = IF h.errs # <<>> THEN Send(errCh, h.errs[1]) ELSE errCh
           /\ disp' = IF h.list = <<>>
                       THEN DispIdle
                       ELSE [pc |-> "send",
                             msg |-> [TopicStrs |-> Tail(msg.topic),
                                      Value |-> h.value, seq |-> seq],
                             list |-> h.list, i |-> 1]
    /\ UNCHANGED <<phase, listening, nExt, hndCh, worker, dev, connClosed, pubCh, pubPend,
                   bus, calc>>
    /\ UNCHANGED regVars

\* Gateway.handler: one round of the loop over the subscriptions.
HandlerSend ==
    /\ disp.pc = "send"
    /\ LET sub == disp.list[disp.i]
           ch == sub.hndCh
       IN  /\ HasRoom(hndCh[ch])
           /\ hndCh' = [hndCh EXCEPT ![ch] =
                           Send(@, HndMsg(disp.msg.TopicStrs, sub.fn, disp.msg.Value,
                                          disp.msg.seq))]
    /\ disp' = IF disp.i = Len(disp.list) THEN DispIdle ELSE [disp EXCEPT !.i = @ + 1]
    /\ UNCHANGED <<phase, listening, inbox, nExt, nSeq, worker, dev, connClosed, pubCh,
                   errCh, pubPend, bus, calc>>
    /\ UNCHANGED regVars

\* CS.cmdHandler reporting an error on the topic without its last level.
cmdResultShortTopic(c, msg, r) ==
    IF r.err # Nil
    THEN [pc |-> "send", q |-> "err",
          out |-> PublishErr(DropLast(msg.TopicStrs), FALSE, r.err, msg.seq, c)]
    ELSE [pc |-> "send", q |-> "pub",
          out |-> Publish(DropLast(msg.TopicStrs), TRUE, r.value, msg.seq, c)]

\* What CS.cmdHandler sends for a handler's return: an error message, or the
\* event on the topic without its last level.
cmdResult(c, msg, r) ==
    IF r.err # Nil
    THEN [pc |-> "send", q |-> "err",
          out |-> PublishErr(msg.TopicStrs, FALSE, r.err, msg.seq, c)]
    ELSE [pc |-> "send", q |-> "pub",
          out |-> Publish(DropLast(msg.TopicStrs), TRUE, r.value, msg.seq, c)]

\* CS.cmdHandler: receive the next command and call its handler.
WorkerExec(c) ==
    /\ worker[c].pc = "recv"
    /\ hndCh[c] # <<>>
    /\ LET msg == Head(hndCh[c])
       IN  \E r \in CallFn(msg.Fn, msg.Value, dev[c], connClosed[c]) :
              /\ dev' = [dev EXCEPT ![c] = r.dev]
              /\ worker' = [worker EXCEPT ![c] = cmdResult(c, msg, r)]
    /\ hndCh' = [hndCh EXCEPT ![c] = Tail(@)]
    /\ UNCHANGED <<phase, listening, inbox, nExt, nSeq, disp, connClosed, pubCh, errCh,
                   pubPend, bus, calc>>
    /\ UNCHANGED regVars

\* CS.cmdHandler: send the result on errCh or on pubCh.
WorkerSend(c) ==
    /\ worker[c].pc = "send"
    /\ IF worker[c].q = "err"
       THEN /\ HasRoom(errCh)
            /\ errCh' = Send(errCh, worker[c].out)
            /\ pubCh' = pubCh
       ELSE /\ HasRoom(pubCh)
            /\ pubCh' = Send(pubCh, worker[c].out)
            /\ errCh' = errCh
    /\ worker' = [worker EXCEPT ![c] = WorkerIdle]
    /\ UNCHANGED <<phase, listening, inbox, nExt, nSeq, disp, hndCh, dev, connClosed,
                   pubPend, bus, calc>>
    /\ UNCHANGED regVars

\* The broker takes a message and delivers it to every subscriber of the root
\* wildcard, the gateway included.
Written(m) ==
    /\ bus' = Append(bus, m)
    /\ inbox' = IF listening THEN Append(inbox, InMsg(m.topic, m.payload)) ELSE inbox

\* Gateway.publish without the test for a nil value.
publishMsgNoNilTest(msg, ok) ==
    IF ok THEN [write |-> TRUE,
                out |-> BusMsg(msg.topic, msg.retain, Marshal(msg.value), msg.seq, msg.src),
                pend |-> <<>>]
    ELSE [write |-> FALSE, out |-> Nil,
          pend |-> <<ErrMsg(msg.topic, FALSE, "publish error", msg.seq, "pub")>>]

\* Gateway.publish logging a failed write without a word on errCh.
publishMsgLogOnly(msg, ok) ==
    IF msg.value = GoNil THEN [write |-> FALSE, out |-> Nil, pend |-> <<>>]
    ELSE IF ok THEN [write |-> TRUE,
                     out |-> BusMsg(msg.topic, msg.retain, Marshal(msg.value), msg.seq,
                                    msg.src),
                     pend |-> <<>>]
    ELSE [write |-> FALSE, out |-> Nil, pend |-> <<>>]

\* Gateway.publish, one message: nothing for a nil value; else the value is
\* written with the message's retain flag, and a failed write becomes an error
\* message.
publishMsg(msg, ok) ==
    IF msg.value = GoNil THEN [write |-> FALSE, out |-> Nil, pend |-> <<>>]
    ELSE IF ok THEN [write |-> TRUE,
                     out |-> BusMsg(msg.topic, msg.retain, Marshal(msg.value), msg.seq,
                                    msg.src),
                     pend |-> <<>>]
    ELSE [write |-> FALSE, out |-> Nil,
          pend |-> <<ErrMsg(msg.topic, FALSE, "publish error", msg.seq, "pub")>>]

\* Gateway.publish: receive the next message and write it to the broker.
PublishNext ==
    /\ pubPend = <<>>
    /\ pubCh # <<>>
    /\ \E ok \in BOOLEAN :
          LET p == publishMsg(Head(pubCh), ok)
          IN  /\ pubPend' = p.pend
              /\ IF p.write THEN Written(p.out) ELSE UNCHANGED <<bus, inbox>>
    /\ pubCh' = Tail(pubCh)
    /\ UNCHANGED <<phase, listening, nExt, nSeq, disp, hndCh, worker, dev, connClosed,
                   errCh, calc>>
    /\ UNCHANGED regVars

\* Gateway.publish: send the error of a failed write on errCh.
PublishSendErr ==
    /\ pubPend # <<>>
    /\ HasRoom(errCh)
    /\ errCh' = Send(errCh, pubPend[1])
    /\ pubPend' = <<>>
    /\ UNCHANGED <<phase, listening, inbox, nExt, nSeq, disp, hndCh, worker, dev,
                   connClosed, pubCh, bus, calc>>
    /\ UNCHANGED regVars

\* Gateway.publishError writing to the topic of the message.
publishErrorMsgOnTopic(msg) ==
    BusMsg(msg.topic, msg.retain, JObject([topic |-> msg.topic, error |-> msg.err]),
           msg.seq, msg.src)

\* Gateway.publishError, one message: topic and error text go to the error
\* topic with the message's retain flag.
publishErrorMsg(msg) ==
    BusMsg(errorTopic, msg.retain, JObject([topic |-> msg.topic, error |-> msg.err]),
           msg.seq, msg.src)

\* Gateway.publishError: receive the next error and write it to the broker; a
\* failed write is logged.
PublishError ==
    /\ errCh # <<>>
    /\ \E ok \in BOOLEAN :
          IF ok THEN Written(publishErrorMsg(Head(errCh))) ELSE UNCHANGED <<bus, inbox>>
    /\ errCh' = Tail(errCh)
    /\ UNCHANGED <<phase, listening, nExt, nSeq, disp, hndCh, worker, dev, connClosed,
                   pubCh, pubPend, calc>>
    /\ UNCHANGED regVars

\* ---------------------------------------------------------- configurations
CSConfig(p, s) == [primary |-> p, secondary |-> s]

\* cs01 controls every loco and cs02 mirrors every loco.
ConfigMirror ==
    [c \in CSNames |-> IF c = "cs01" THEN CSConfig(FilterAll, NewFilter)
                                     ELSE CSConfig(NewFilter, FilterAll)]
\* cs01 controls every loco and cs02 has no loco.
ConfigSingle ==
    [c \in CSNames |-> IF c = "cs01" THEN CSConfig(FilterAll, NewFilter)
                                     ELSE CSConfig(NewFilter, NewFilter)]
\* Both command stations mirror every loco and none controls one.
ConfigListeners == [c \in CSNames |-> CSConfig(NewFilter, FilterAll)]
\* Both command stations claim every loco.
ConfigBoth == [c \in CSNames |-> CSConfig(FilterAll, FilterAll)]

\* ------------------------------------------------------------------ inputs
SpeedSet(l) == <<TopicRoot, "loco", l, "speed", "set">>
SpeedStop(l) == <<TopicRoot, "loco", l, "speed", "stop">>
SpeedAdd(l) == <<TopicRoot, "loco", l, "speed", "add">>

\* The messages other clients publish in the runs of Spec.
Inputs ==
    {InMsg(SpeedSet("br01"), JNumber(80)),
     InMsg(SpeedSet("unknown"), JNumber(80)),
     InMsg(SpeedSet("unknown"), JInvalid)}

\* The messages other clients publish in the runs of SpecInbound: a speed
\* command, the same with a payload that is no JSON, one on a topic of six
\* levels and one for a loco name with a wildcard character.
InboundInputs ==
    {InMsg(SpeedSet("br01"), JNumber(80)),
     InMsg(SpeedSet("br01"), JInvalid),
     InMsg(SpeedSet("br01") \o <<"extra">>, JNumber(80)),
     InMsg(SpeedSet("br+01"), JNumber(80))}

\* The messages other clients publish in the runs of SpecQueue: commands for
\* cs01 and, as the last one, a command for cs02.
TempGet(c) == <<TopicRoot, "cs", c, "temp", "get">>
QueueInputs ==
    IF nExt < MaxQueueMsgs - 1 THEN {InMsg(TempGet("cs01"), JNull)}
                               ELSE {InMsg(TempGet("cs02"), JNull)}

\* The messages other clients publish in the runs of SpecMirror: a speed, a
\* direction and a function of the loco two stations hold.
DirSet(l) == <<TopicRoot, "loco", l, "dir", "set">>
FctSet(l, f) == <<TopicRoot, "loco", l, f, "set">>
MirrorInputs ==
    {InMsg(SpeedSet("br01"), JNumber(80)),
     InMsg(DirSet("br01"), JBool(FALSE)),
     InMsg(FctSet("br01", "light"), JBool(TRUE))}

\* The messages other clients publish in the runs of SpecShutdown.
ShutdownInputs == {InMsg(SpeedSet("br01"), JNumber(80))}

\* The speed commands of a run of SpecSpeed.
SpeedInputs ==
    {InMsg(SpeedSet("br01"), JNumber(calc.s)),
     InMsg(SpeedStop("br01"), JNull),
     InMsg(SpeedStop("br01"), JNumber(calc.s))}

\* The bus speeds and the device speeds.
Speeds127 == 0..126
Speeds128 == 0..127

\* The add command of a run of SpecAdd.
AddInputs == {InMsg(SpeedAdd("br01"), JNumber(calc.s))}

\* The deltas of add commands: small ones that reach both ends of the speed
\* range from every speed, and whole numbers beyond the range of an int.
Deltas == {-127, -126, -1, 0, 1, 126, 127, IntMax + 1, IntMin - 1}

\* ----------------------------------------------------------- specifications
RECURSIVE csSubscribeAll(_, _)
csSubscribeAll(s, cs) ==
    IF cs = <<>> THEN s ELSE csSubscribeAll(csSubscribe(s, cs[1]), Tail(cs))

CalcInit(s, d) == [s |-> s, d |-> d, dev |-> 0, ext |-> 0, back |-> 0, done |-> FALSE]

\* The state after gateway.New, CSSet.Add for every command station and
\* LocoSet.Add for every loco; the devices stand at speed d.
InitWith(configs, draws) ==
    /\ config \in configs
    /\ calc \in draws
    /\ csLocos = [c \in CSNames |-> {}]
    /\ primary = [l \in LocoNames |-> Nil]
    /\ secondaries = [l \in LocoNames |-> {}]
    /\ subs = csSubscribeAll(<<>>, SetToSeq(CSNames))
    /\ ret = Ret("none", Nil, Nil, FALSE, Nil)
    /\ phase = "init"
    /\ listening = FALSE
    /\ inbox = <<>>
    /\ nExt = 0
    /\ nSeq = 0
    /\ disp = DispIdle
    /\ hndCh = [c \in CSNames |-> <<>>]
    /\ worker = [c \in CSNames |-> WorkerIdle]
    /\ dev = [c \in CSNames |->
                [DevInit EXCEPT !.locos = [a \in Addrs |-> [@[a] EXCEPT !.speed = calc.d]]]]
    /\ connClosed = [c \in CSNames |-> FALSE]
    /\ pubCh = <<>>
    /\ errCh = <<>>
    /\ pubPend = <<>>
    /\ bus = <<>>

\* The gateway at work: registration, Listen, then traffic.
Init == InitWith({ConfigMirror, ConfigBoth}, {CalcInit(80, 0)})

Next ==
    \/ Register
    \/ Listen
    \/ ExtPublish(Inputs, MaxMsgs)
    \/ HandlerStart
    \/ HandlerSend
    \/ \E c \in CSNames : WorkerExec(c)
    \/ \E c \in CSNames : WorkerSend(c)
    \/ PublishNext
    \/ PublishSendErr
    \/ PublishError

Spec == Init /\ [][Next]_vars

\* The gateway at work with every task scheduled again and again: the
\* dispatcher, the worker of every station and the two publishers take the
\* step they are ready for.
Fairness ==
    /\ WF_vars(HandlerStart)
    /\ WF_vars(HandlerSend)
    /\ \A c \in CSNames : WF_vars(WorkerExec(c)) /\ WF_vars(WorkerSend(c))
    /\ WF_vars(PublishNext)
    /\ WF_vars(PublishSendErr)
    /\ WF_vars(PublishError)

\* One station at work on one more speed command than its channel holds, so
\* that the dispatcher has to wait for the worker.
InitFair == InitWith({ConfigSingle}, {CalcInit(80, 0)})

NextFair ==
    \/ Register
    \/ Listen
    \/ ExtPublish(ShutdownInputs, ChanSize + 1)
    \/ HandlerStart
    \/ HandlerSend
    \/ \E c \in CSNames : WorkerExec(c)
    \/ \E c \in CSNames : WorkerSend(c)
    \/ PublishNext
    \/ PublishSendErr
    \/ PublishError

SpecFair == InitFair /\ [][NextFair]_vars /\ Fairness

\* The gateway at work and on its way out of main.
InitShutdown == InitWith({ConfigMirror}, {CalcInit(80, 0)})

NextShutdown ==
    \/ Register
    \/ Listen
    \/ ExtPublish(ShutdownInputs, MaxMsgs)
    \/ HandlerStart
    \/ HandlerSend
    \/ \E c \in CSNames : WorkerExec(c)
    \/ \E c \in CSNames : WorkerSend(c)
    \/ PublishNext
    \/ PublishSendErr
    \/ PublishError
    \/ \E c \in CSNames : Shutdown(c)

SpecShutdown == InitShutdown /\ [][NextShutdown]_vars

\* One station in control and one mirror at work on well-formed and
\* ill-formed inbound messages.
InitInbound == InitWith({ConfigMirror}, {CalcInit(80, 0)})

NextInbound ==
    \/ Register
    \/ Listen
    \/ ExtPublish(InboundInputs, MaxMsgs)
    \/ HandlerStart
    \/ HandlerSend
    \/ \E c \in CSNames : WorkerExec(c)
    \/ \E c \in CSNames : WorkerSend(c)
    \/ PublishNext
    \/ PublishSendErr
    \/ PublishError

SpecInbound == InitInbound /\ [][NextInbound]_vars

\* Two stations at work on commands of their own, as many as fill a channel
\* and keep the dispatcher waiting.
InitQueue == InitWith({ConfigSingle}, {CalcInit(80, 0)})

NextQueue ==
    \/ Register
    \/ Listen
    \/ ExtPublish(QueueInputs, MaxQueueMsgs)
    \/ HandlerStart
    \/ HandlerSend
    \/ \E c \in CSNames : WorkerExec(c)
    \/ \E c \in CSNames : WorkerSend(c)
    \/ PublishNext
    \/ PublishSendErr
    \/ PublishError

SpecQueue == InitQueue /\ [][NextQueue]_vars

\* One station in control of the locos and one mirror at work on commands
\* for a loco.
\* The messages of SpecDispatch: a speed event and a speed command of br01, a
\* payload that is no JSON, and an event of a loco nobody subscribed to.
DispatchInputs ==
    {InMsg(<<TopicRoot, "loco", "br01", "speed">>, JNumber(80)),
     InMsg(SpeedSet("br01"), JNumber(80)),
     InMsg(<<TopicRoot, "loco", "br01", "speed">>, JInvalid),
     InMsg(<<TopicRoot, "loco", "br09", "speed">>, JNumber(80))}

InitDispatch == InitWith({ConfigListeners, ConfigMirror}, {CalcInit(80, 0)})

NextDispatch ==
    \/ Register
    \/ Listen
    \/ ExtPublish(DispatchInputs, MaxSpeedMsgs)
    \/ HandlerStart
    \/ HandlerSend
    \/ \E c \in CSNames : WorkerExec(c)
    \/ \E c \in CSNames : WorkerSend(c)
    \/ PublishNext
    \/ PublishSendErr
    \/ PublishError

SpecDispatch == InitDispatch /\ [][NextDispatch]_vars

InitMirror == InitWith({ConfigMirror}, {CalcInit(80, 0)})

NextMirror ==
    \/ Register
    \/ Listen
    \/ ExtPublish(MirrorInputs, MaxSpeedMsgs)
    \/ HandlerStart
    \/ HandlerSend
    \/ \E c \in CSNames : WorkerExec(c)
    \/ \E c \in CSNames : WorkerSend(c)
    \/ PublishNext
    \/ PublishSendErr
    \/ PublishError

SpecMirror == InitMirror /\ [][NextMirror]_vars

\* One station at work on speed commands, for every bus speed and from every
\* device speed.
SpeedDraws ==
    {CalcInit(s, 0) : s \in Speeds127} \cup {CalcInit(80, d) : d \in Speeds128}

InitSpeed == InitWith({ConfigSingle}, SpeedDraws)

NextSpeed ==
    \/ Register
    \/ Listen
    \/ ExtPublish(SpeedInputs, MaxSpeedMsgs)
    \/ HandlerStart
    \/ HandlerSend
    \/ \E c \in CSNames : WorkerExec(c)
    \/ \E c \in CSNames : WorkerSend(c)
    \/ PublishNext
    \/ PublishSendErr
    \/ PublishError

SpecSpeed == InitSpeed /\ [][NextSpeed]_vars

\* Payloads of a speed set command inside and outside the bus speeds.
RangeSpeeds == {-2, -1, 0, 1, 126, 127, 200}

InitRange == InitWith({ConfigSingle}, {CalcInit(s, 0) : s \in RangeSpeeds})

SpecRange == InitRange /\ [][NextSpeed]_vars

\* One station at work on an add command, for every delta and from every
\* device speed.
InitAdd == InitWith({ConfigSingle}, {CalcInit(delta, d) : delta \in Deltas, d \in Speeds128})

NextAdd ==
    \/ Register
    \/ Listen
    \/ ExtPublish(AddInputs, MaxSpeedMsgs)
    \/ HandlerStart
    \/ HandlerSend
    \/ \E c \in CSNames : WorkerExec(c)
    \/ \E c \in CSNames : WorkerSend(c)
    \/ PublishNext
    \/ PublishSendErr
    \/ PublishError

SpecAdd == InitAdd /\ [][NextAdd]_vars

\* filter.includes applied to every filter of up to MaxPatterns include and
\* exclude expressions and every loco name.
Patterns == {ReAll, ReBr01, ReBr02}
PatternLists == UNION {[1..k -> Patterns] : k \in 0..MaxPatterns}
FilterDraws ==
    {[f |-> [Incls |-> i, Excls |-> e], name |-> n, res |-> FALSE, done |-> FALSE, d |-> 0] :
        i \in PatternLists, e \in PatternLists, n \in LocoNames}

ApplyFilter ==
    /\ ~calc.done
    /\ calc' = [calc EXCEPT !.res = includes(calc.f, calc.name), !.done = TRUE]
    /\ UNCHANGED regVars
    /\ UNCHANGED pipeVars

InitFilter == InitWith({ConfigSingle}, FilterDraws)

NextFilter == ApplyFilter

SpecFilter == InitFilter /\ [][NextFilter]_vars

\* ------------------------------------------------------- topics as strings
\* A string is the sequence of its characters.
sep == "/"
singleLevel == "+"
multiLevel == "#"
specialChars == {sep, singleLevel, multiLevel}

errEmptyTopicLevelName == "invalid topic level name: name is empty"
errInvalidTopicLevelName == "invalid topic level name: name contains invalid characters"

\* CheckLevelName without the test for the special characters.
CheckLevelNameEmptyOnly(name) ==
    IF name = <<>> THEN errEmptyTopicLevelName ELSE Nil

\* CheckLevelName: the error for a level name, Nil for none.
CheckLevelName(name) ==
    CASE name = <<>> -> errEmptyTopicLevelName
      [] \E i \in DOMAIN name : name[i] \in specialChars -> errInvalidTopicLevelName
      [] OTHER -> Nil

\* strings.Join without separator.
RECURSIVE topicJoinNoSep(_)
topicJoinNoSep(topicParts) ==
    IF topicParts = <<>> THEN <<>> ELSE Head(topicParts) \o topicJoinNoSep(Tail(topicParts))

\* topicJoin: strings.Join(topicParts, sep).
RECURSIVE topicJoin(_)
topicJoin(topicParts) ==
    CASE topicParts = <<>> -> <<>>
      [] Len(topicParts) = 1 -> topicParts[1]
      [] OTHER -> topicParts[1] \o <<sep>> \o topicJoin(Tail(topicParts))

\* strings.Split(topicStr, sep) behind the part read so far.
RECURSIVE splitFrom(_, _)
splitFrom(topicStr, part) ==
    CASE topicStr = <<>> -> <<part>>
      [] Head(topicStr) = sep -> <<part>> \o splitFrom(Tail(topicStr), <<>>)
      [] OTHER -> splitFrom(Tail(topicStr), Append(part, Head(topicStr)))

\* topicSplit: strings.Split(topicStr, sep).
topicSplit(topicStr) == splitFrom(topicStr, <<>>)

\* The strings of up to MaxNameLen characters over the given characters.
StringsOver(chars) == UNION {[1..k -> chars] : k \in 0..MaxNameLen}

\* Topics of two to five levels; a level is a string of letters or a string
\* of separators, the empty string included.
TopicLevels == StringsOver({"a", "b"}) \cup StringsOver({sep})
TopicDraws ==
    {[levels |-> t, str |-> <<>>, parsed |-> <<>>, done |-> FALSE, d |-> 0] :
        t \in UNION {[1..n -> TopicLevels] : n \in 2..5}}

\* A topic is formatted and the string is parsed.
RoundTrip ==
    /\ ~calc.done
    /\ calc' = [calc EXCEPT !.str = topicJoin(calc.levels),
                            !.parsed = topicSplit(topicJoin(calc.levels)),
                            !.done = TRUE]
    /\ UNCHANGED regVars
    /\ UNCHANGED pipeVars

InitTopic == InitWith({ConfigSingle}, TopicDraws)

NextTopic == RoundTrip

SpecTopic == InitTopic /\ [][NextTopic]_vars

\* ----------------------------------------------------------------- creation
\* The names of the configurations a run of SpecCreate loads, and the
\* characters of each.
CreateCSNames == CSNames \cup {"", "cs/1", "cs+1", "cs#1"}
CreateLocoNames == LocoNames \cup {"", "br/1", "br+1", "br#1"}

Spelling(name) ==
    CASE name = "" -> <<>>
      [] name = "cs01" -> <<"c", "s", "0", "1">>
      [] name = "cs02" -> <<"c", "s", "0", "2">>
      [] name = "cs/1" -> <<"c", "s", "/", "1">>
      [] name = "cs+1" -> <<"c", "s", "+", "1">>
      [] name = "cs#1" -> <<"c", "s", "#", "1">>
      [] name = "br01" -> <<"b", "r", "0", "1">>
      [] name = "br02" -> <<"b", "r", "0", "2">>
      [] name = "br/1" -> <<"b", "r", "/", "1">>
      [] name = "br+1" -> <<"b", "r", "+", "1">>
      [] name = "br#1" -> <<"b", "r", "#", "1">>

\* CSConfig.validate and LocoConfig.validate (no function of a loco of the
\* runs has a reserved name).
validate(name) == CheckLevelName(Spelling(name))

\* CSSet.Add with newCS: the configuration is validated, the connection is
\* opened, the station subscribes its topics and enters the set.
CSSetAddR(r, c, connOk) ==
    IF validate(c) # Nil
    THEN [r EXCEPT !.ret = Ret("CSSet.Add", c, Nil, FALSE, validate(c))]
    ELSE IF ~connOk
    THEN [r EXCEPT !.ret = Ret("CSSet.Add", c, Nil, FALSE, "open failed")]
    ELSE [r EXCEPT !.csLocos = (c :> {}) @@ @,
                   !.subs = csSubscribe(@, c),
                   !.ret = Ret("CSSet.Add", c, Nil, TRUE, Nil)]

\* LocoSet.Add with newLoco: the configuration is validated and the loco,
\* without primary and without secondaries, enters the set.
LocoSetAddR(r, l) ==
    IF validate(l) # Nil
    THEN [r EXCEPT !.ret = Ret("LocoSet.Add", Nil, l, FALSE, validate(l))]
    ELSE [r EXCEPT !.primary = (l :> Nil) @@ @,
                   !.secondaries = (l :> {}) @@ @,
                   !.ret = Ret("LocoSet.Add", Nil, l, TRUE, Nil)]

\* deviceSets.register returns at the first error and main ends.
AfterCall(r, next) == IF r.ret.err # Nil THEN "failed" ELSE next

\* deviceSets.register, first loop: one command station configuration.
CSSetAdd(c, connOk) ==
    /\ phase = "createCS"
    /\ c \notin DOMAIN csLocos
    /\ LET r == CSSetAddR(RegState, c, connOk)
       IN  SetReg(r) /\ phase' = AfterCall(r, "createCS")
    /\ UNCHANGED <<config, listening, inbox, nExt, nSeq, disp, hndCh, worker, dev,
                   connClosed, pubCh, errCh, pubPend, bus, calc>>

\* deviceSets.register, second loop: one loco configuration.
LocoSetAdd(l) ==
    /\ phase \in {"createCS", "createLoco"}
    /\ l \notin DOMAIN primary
    /\ LET r == LocoSetAddR(RegState, l)
       IN  SetReg(r) /\ phase' = AfterCall(r, "createLoco")
    /\ UNCHANGED <<config, listening, inbox, nExt, nSeq, disp, hndCh, worker, dev,
                   connClosed, pubCh, errCh, pubPend, bus, calc>>

\* deviceSets.register, third loop: CS.AddLoco for a station and a loco of the
\* sets; each pair is taken once (a station keeps every loco of these runs).
RegisterLoco(c, l) ==
    /\ phase \in {"createCS", "createLoco", "addLoco"}
    /\ c \in DOMAIN csLocos
    /\ l \in DOMAIN primary
    /\ l \notin csLocos[c]
    /\ LET r == AddLocoR(RegState, c, l)
       IN  SetReg(r) /\ phase' = AfterCall(r, "addLoco")
    /\ UNCHANGED <<config, listening, inbox, nExt, nSeq, disp, hndCh, worker, dev,
                   connClosed, pubCh, errCh, pubPend, bus, calc>>

\* The state after NewCSSet and NewLocoSet: no station, no loco and, after
\* gateway.New, no subscription. cs01 controls and every other station
\* mirrors every loco.
InitCreate ==
    /\ config = [c \in CreateCSNames |->
                    IF c = "cs01" THEN CSConfig(FilterAll, NewFilter)
                                  ELSE CSConfig(NewFilter, FilterAll)]
    /\ calc = CalcInit(80, 0)
    /\ csLocos = <<>>
    /\ primary = <<>>
    /\ secondaries = <<>>
    /\ subs = <<>>
    /\ ret = Ret("none", Nil, Nil, FALSE, Nil)
    /\ phase = "createCS"
    /\ listening = FALSE
    /\ inbox = <<>>
    /\ nExt = 0
    /\ nSeq = 0
    /\ disp = DispIdle
    /\ hndCh = [c \in CSNames |-> <<>>]
    /\ worker = [c \in CSNames |-> WorkerIdle]
    /\ dev = [c \in CSNames |-> DevInit]
    /\ connClosed = [c \in CSNames |-> FALSE]
    /\ pubCh = <<>>
    /\ errCh = <<>>
    /\ pubPend = <<>>
    /\ bus = <<>>

NextCreate ==
    \/ \E c \in CreateCSNames, connOk \in BOOLEAN : CSSetAdd(c, connOk)
    \/ \E l \in CreateLocoNames : LocoSetAdd(l)
    \/ \E c \in CreateCSNames, l \in CreateLocoNames : RegisterLoco(c, l)

SpecCreate == InitCreate /\ [][NextCreate]_vars

\* The speed conversions applied to every bus speed and every device speed.
Convert ==
    /\ ~calc.done
    /\ calc' = [calc EXCEPT !.dev = speed127_speed128(calc.s),
                            !.ext = speed128_speed127(calc.d),
                            !.back = speed128_speed127(speed127_speed128(calc.s)),
                            !.done = TRUE]
    /\ UNCHANGED regVars
    /\ UNCHANGED pipeVars

InitConv == InitWith({ConfigSingle}, {CalcInit(s, d) : s \in Speeds127, d \in Speeds128})

NextConv == Convert

SpecConv == InitConv /\ [][NextConv]_vars

\* Registration and close calls in any order, for every configuration.
\* ------------------------------------------------------------ Gateway.Close
\* calc in SpecClose: the two tasks gateway.New starts (new: the go statement
\* has run and the task has not; run: the task is past wg.Add; done: it has
\* returned), the counter of the wait group, how far Gateway.Close has come
\* (open, pubClosed, errClosed, waited, disconnected) and the task that
\* panicked with a send on a closed channel.
CloseCalc ==
    [d |-> 80, pubT |-> "new", errT |-> "new", wg |-> 0, close |-> "open", panic |-> Nil]

Alive == calc.panic = Nil /\ calc.close # "disconnected"
PubChOpen == calc.close = "open"
ErrChOpen == calc.close \in {"open", "pubClosed"}

\* A step of another task while the process is alive.
Step(A) == Alive /\ A /\ UNCHANGED calc

\* A task of the process changes calc only.
CalcOnly ==
    /\ UNCHANGED <<phase, listening, inbox, nExt, nSeq, disp, hndCh, worker, dev, connClosed,
                   pubCh, errCh, pubPend, bus>>
    /\ UNCHANGED regVars

\* Gateway.publish and Gateway.publishError: wg.Add(1) at the start of the task.
publishStart ==
    /\ Alive /\ calc.pubT = "new"
    /\ calc' = [calc EXCEPT !.pubT = "run", !.wg = @ + 1]
    /\ CalcOnly
publishErrorStart ==
    /\ Alive /\ calc.errT = "new"
    /\ calc' = [calc EXCEPT !.errT = "run", !.wg = @ + 1]
    /\ CalcOnly

\* The range loops end when the channel is closed and empty; wg.Done follows.
publishReturn ==
    /\ Alive /\ calc.pubT = "run"
    /\ ~PubChOpen /\ pubCh = <<>> /\ pubPend = <<>>
    /\ calc' = [calc EXCEPT !.pubT = "done", !.wg = @ - 1]
    /\ CalcOnly
publishErrorReturn ==
    /\ Alive /\ calc.errT = "run"
    /\ ~ErrChOpen /\ errCh = <<>>
    /\ calc' = [calc EXCEPT !.errT = "done", !.wg = @ - 1]
    /\ CalcOnly

\* Gateway.Close, which main defers before deviceSets.close and which so runs
\* after it: close(gw.pubCh), close(gw.errCh), gw.wg.Wait(), and then
\* unsubscribeBroker and Disconnect.
GwClosePubCh ==
    /\ Alive /\ calc.close = "open"
    /\ phase = "closing" /\ \A c \in CSNames : connClosed[c]
    /\ calc' = [calc EXCEPT !.close = "pubClosed"]
    /\ CalcOnly
GwCloseErrCh ==
    /\ Alive /\ calc.close = "pubClosed"
    /\ calc' = [calc EXCEPT !.close = "errClosed"]
    /\ CalcOnly
GwWait ==
    /\ Alive /\ calc.close = "errClosed"
    /\ calc.wg = 0
    /\ calc' = [calc EXCEPT !.close = "waited"]
    /\ CalcOnly
GwDisconnect ==
    /\ Alive /\ calc.close = "waited"
    /\ calc' = [calc EXCEPT !.close = "disconnected"]
    /\ listening' = FALSE
    /\ UNCHANGED <<phase, inbox, nExt, nSeq, disp, hndCh, worker, dev, connClosed, pubCh,
                   errCh, pubPend, bus>>
    /\ UNCHANGED regVars

\* A send on a closed channel panics: CS.cmdHandler in gw.Publish or
\* gw.PublishErr, Gateway.handler with a decode error, Gateway.publish with
\* the error of a failed write.
PanicWorker(c) ==
    /\ Alive /\ worker[c].pc = "send"
    /\ IF worker[c].q = "err" THEN ~ErrChOpen ELSE ~PubChOpen
    /\ calc' = [calc EXCEPT !.panic = c]
    /\ CalcOnly
PanicHandler ==
    /\ Alive /\ listening /\ disp.pc = "idle" /\ inbox # <<>>
    /\ Unmarshal(Head(inbox).payload).err # Nil
    /\ ~ErrChOpen
    /\ calc' = [calc EXCEPT !.panic = "gw"]
    /\ CalcOnly
PanicPublish ==
    /\ Alive /\ calc.pubT = "run" /\ pubPend # <<>>
    /\ ~ErrChOpen
    /\ calc' = [calc EXCEPT !.panic = "pub"]
    /\ CalcOnly

\* The messages of SpecClose: a speed command and a payload that is no JSON.
CloseInputs == {InMsg(SpeedSet("br01"), JNumber(80)), InMsg(SpeedSet("br01"), JInvalid)}

InitClose == InitWith({ConfigSingle}, {CloseCalc})

NextClose ==
    \/ Step(Register)
    \/ Step(Listen)
    \/ Step(ExtPublish(CloseInputs, MaxSpeedMsgs))
    \/ Step(HandlerStart /\ (ErrChOpen \/ Unmarshal(Head(inbox).payload).err = Nil))
    \/ Step(HandlerSend)
    \/ \E c \in CSNames : Step(WorkerExec(c))
    \/ \E c \in CSNames :
          Step(WorkerSend(c) /\ (IF worker[c].q = "err" THEN ErrChOpen ELSE PubChOpen))
    \/ Step(calc.pubT = "run" /\ PublishNext)
    \/ Step(calc.pubT = "run" /\ ErrChOpen /\ PublishSendErr)
    \/ Step(calc.errT = "run" /\ PublishError)
    \/ \E c \in CSNames : Step(Shutdown(c))
    \/ publishStart
    \/ publishErrorStart
    \/ publishReturn
    \/ publishErrorReturn
    \/ GwClosePubCh
    \/ GwCloseErrCh
    \/ GwWait
    \/ GwDisconnect
    \/ \E c \in CSNames : PanicWorker(c)
    \/ PanicHandler
    \/ PanicPublish

SpecClose == InitClose /\ [][NextClose]_vars

\* ------------------------------------------------- Listen called repeatedly
\* calc in SpecListen: the last call, its error, the number of calls of Listen,
\* of calls that returned nil, of client.Subscribe calls, and whether the
\* broker holds the gateway's subscription.
ListenCalc ==
    [d |-> 80, op |-> "none", err |-> Nil, calls |-> 0, oks |-> 0, subscribes |-> 0,
     subscribed |-> FALSE]

errAlreadyListening == "gateway is already listening"
errSubscribe == "subscribe failed"

\* Gateway.Listen without the test of gw.listening.
GwListenNoTest(ok) ==
    /\ phase \in {"registered", "running"}
    /\ calc.calls < MaxListens
    /\ listening' = TRUE
    /\ calc' = [calc EXCEPT !.op = "Listen", !.calls = @ + 1,
                            !.subscribes = @ + 1,
                            !.subscribed = calc.subscribed \/ ok,
                            !.oks = IF ok THEN @ + 1 ELSE @,
                            !.err = IF ok THEN Nil ELSE errSubscribe]
    /\ phase' = "running"
    /\ UNCHANGED <<inbox, nExt, nSeq, disp, hndCh, worker, dev, connClosed, pubCh, errCh,
                   pubPend, bus>>
    /\ UNCHANGED regVars

\* Gateway.Listen: an error if the gateway is marked as listening; otherwise
\* the mark is set and then subscribeBroker is called, which succeeds (ok) or
\* fails, and whose error is returned.
GwListen(ok) ==
    /\ phase \in {"registered", "running"}
    /\ calc.calls < MaxListens
    /\ IF listening
       THEN /\ listening' = listening
            /\ calc' = [calc EXCEPT !.op = "Listen", !.calls = @ + 1,
                                    !.err = errAlreadyListening]
       ELSE /\ listening' = TRUE
            /\ calc' = [calc EXCEPT !.op = "Listen", !.calls = @ + 1,
                                    !.subscribes = @ + 1,
                                    !.subscribed = ok,
                                    !.oks = IF ok THEN @ + 1 ELSE @,
                                    !.err = IF ok THEN Nil ELSE errSubscribe]
    /\ phase' = "running"
    /\ UNCHANGED <<inbox, nExt, nSeq, disp, hndCh, worker, dev, connClosed, pubCh, errCh,
                   pubPend, bus>>
    /\ UNCHANGED regVars

\* The broker delivers messages only while it holds the subscription.
Delivery == calc.subscribed /\ ExtPublish(ShutdownInputs, MaxSpeedMsgs)

InitListen == InitWith({ConfigSingle}, {ListenCalc})

NextListen ==
    \/ Register
    \/ \E ok \in BOOLEAN : GwListen(ok)
    \/ Delivery
    \/ HandlerStart
    \/ HandlerSend
    \/ \E c \in CSNames : WorkerExec(c)
    \/ \E c \in CSNames : WorkerSend(c)
    \/ PublishNext
    \/ PublishSendErr
    \/ PublishError

SpecListen == InitListen /\ [][NextListen]_vars

\* ------------------------------------------------- the registry on its own
\* Topics and handlers the registry is called with: subscriptions are added
\* on the first topic and removed on both, the second being a topic CS.subscribe
\* has subscribed at construction.
SubsTopic == <<"loco", "br01", "speed">>
SubsTopics == {SubsTopic, <<"cs", "cs01", "temp", "get">>}
SubsFns == {HndFn("getTemp", "cs01", 0, 0, TRUE), HndFn("setLocoSpeed", "cs02", 1, 0, FALSE)}

\* The list of a topic, empty for a topic the map has no key for.
ListAt(s, topic) == IF topic \in DOMAIN s THEN s[topic] ELSE <<>>

\* A call of Gateway.Subscribe; calc keeps the call's arguments.
GwSubscribe(owner, topic, fn) ==
    /\ Len(ListAt(subs, topic)) < MaxSubs
    /\ subs' = Subscribe(subs, owner, owner, topic, fn)
    /\ calc' = [op |-> "Subscribe", owner |-> owner, topic |-> topic, hit |-> FALSE]
    /\ UNCHANGED <<config, csLocos, primary, secondaries, ret>>
    /\ UNCHANGED pipeVars

\* A call of Gateway.Unsubscribe; calc keeps the call's arguments and whether
\* the owner had a subscription on the topic.
GwUnsubscribe(owner, topic) ==
    /\ subs' = Unsubscribe(subs, owner, topic)
    /\ calc' = [op |-> "Unsubscribe", owner |-> owner, topic |-> topic,
                hit |-> \E i \in DOMAIN ListAt(subs, topic) :
                           ListAt(subs, topic)[i].owner = owner]
    /\ UNCHANGED <<config, csLocos, primary, secondaries, ret>>
    /\ UNCHANGED pipeVars

InitSubs == InitWith({ConfigSingle}, {CalcInit(80, 0)})

NextSubs ==
    \/ \E o \in CSNames, fn \in SubsFns : GwSubscribe(o, SubsTopic, fn)
    \/ \E o \in CSNames, t \in SubsTopics : GwUnsubscribe(o, t)

SpecSubs == InitSubs /\ [][NextSubs]_vars

RegConfigs ==
    {CSConfig(FilterAll, NewFilter), CSConfig(NewFilter, FilterAll),
     CSConfig(FilterAll, FilterAll), CSConfig(FilterNotBr02, FilterBr02),
     CSConfig(NewFilter, NewFilter)}

InitReg == InitWith([CSNames -> RegConfigs], {CalcInit(80, 0)})

NextReg ==
    \/ \E c \in CSNames, l \in LocoNames : AddLoco(c, l)
    \/ \E c \in CSNames : Close(c)

SpecReg == InitReg /\ [][NextReg]_vars

\* ------------------------------------------- registration in every order
\* The configurations of SpecOrder.
OrderConfigs ==
    RegConfigs \cup {CSConfig(FilterBr02, FilterNotBr02), CSConfig(FilterNotBr02, NewFilter)}

InitOrder == InitWith([CSNames -> OrderConfigs], {CalcInit(80, 0)})

NextOrder == Register

SpecOrder == InitOrder /\ [][NextOrder]_vars

\* ------------------------------------------------ two add commands in a row
\* calc in SpecAddTwo: the deltas of the first and of the later add commands
\* and the device speed at the start.
AddTwoCalc(d1, d2, d) == [s |-> d1, s2 |-> d2, d |-> d]

AddTwoInputs == {InMsg(SpeedAdd("br01"), JNumber(IF nExt = 0 THEN calc.s ELSE calc.s2))}

InitAddTwo ==
    InitWith({ConfigSingle},
             {AddTwoCalc(d1, d2, d) : d1 \in {-126, 126}, d2 \in {-1, 1}, d \in {0, 1, 81, 127}})

NextAddTwo ==
    \/ Register
    \/ Listen
    \/ ExtPublish(AddTwoInputs, MaxMsgs)
    \/ HandlerStart
    \/ HandlerSend
    \/ \E c \in CSNames : WorkerExec(c)
    \/ \E c \in CSNames : WorkerSend(c)
    \/ PublishNext
    \/ PublishSendErr
    \/ PublishError

SpecAddTwo == InitAddTwo /\ [][NextAddTwo]_vars

\* --------------------------------------------- payloads of the wrong type
\* The messages of SpecTypes: for every handler that takes a value a payload
\* of another JSON type, on command topics and on an event topic, and one
\* command with the type its handler takes.
TypeInputs ==
    {InMsg(SpeedSet("br01"), JString("fast")),
     InMsg(SpeedSet("br01"), JBool(TRUE)),
     InMsg(SpeedSet("br01"), JNull),
     InMsg(SpeedAdd("br01"), JString("1")),
     InMsg(DirSet("br01"), JNumber(1)),
     InMsg(FctSet("br01", "light"), JNumber(1)),
     InMsg(<<TopicRoot, "cs", "cs01", "mte", "set">>, JString("on")),
     InMsg(<<TopicRoot, "loco", "br01", "speed">>, JString("fast")),
     InMsg(DirSet("br01"), JBool(FALSE))}

InitTypes == InitWith({ConfigMirror}, {CalcInit(80, 0)})

NextTypes ==
    \/ Register
    \/ Listen
    \/ ExtPublish(TypeInputs, MaxSpeedMsgs)
    \/ HandlerStart
    \/ HandlerSend
    \/ \E c \in CSNames : WorkerExec(c)
    \/ \E c \in CSNames : WorkerSend(c)
    \/ PublishNext
    \/ PublishSendErr
    \/ PublishError

SpecTypes == InitTypes /\ [][NextTypes]_vars

\* ------------------------------------------------------------------ claims
\* C1: after any sequence of AddLoco and close calls every loco has at most
\* one primary command station, the primary is never one of the loco's
\* secondaries, and at most one command station holds the loco's command
\* subscriptions.
C1_OnePrimaryNotSecondary ==
    \A l \in LocoNames :
        /\ Cardinality({c \in CSNames : isPrimary(RegState, c, l)}) <= 1
        /\ primary[l] \notin secondaries[l]
        /\ \A c \in secondaries[l] : ~isPrimary(RegState, c, l)
        /\ LET list == subs[<<"loco", l, "speed", "set">>]
           IN  <<"loco", l, "speed", "set">> \in DOMAIN subs =>
                  \A i \in 1..Len(list) : list[i].owner = primary[l]

\* C1 witness: a command station whose two filters both include a loco has
\* become its primary, and another command station is the loco's secondary.
C1_Witness ==
    \E l \in LocoNames, a, b \in CSNames :
        /\ a # b
        /\ includes(config[a].primary, l) /\ includes(config[a].secondary, l)
        /\ primary[l] = a
        /\ secondaries[l] = {b}
        /\ ret = Ret("AddLoco", a, l, TRUE, Nil)

\* C2: registering A for a loco without primary that A's primary filter
\* includes makes A the primary; registering then another station B whose
\* primary filter includes the loco returns an error, changes no subscription
\* and leaves the loco's primary and secondaries as they were.
C2_AddLocoStep(c, l) ==
    /\ ret'.op = "AddLoco" /\ ret'.cs = c /\ ret'.loco = l
    /\ ~connClosed[c]
    /\ includes(config[c].primary, l)

ExecStep(c) == worker[c].pc = "recv" /\ worker'[c].pc = "send"
SendStep(c) == worker[c].pc = "send" /\ worker'[c].pc = "recv"
PublishStep == pubPend = <<>> /\ pubCh # <<>> /\ pubCh' = Tail(pubCh)

SpeedEvent(l) == <<TopicRoot, "loco", l, "speed">>

\* No command of a command station has two messages on the bus.
OncePerCommand(b) ==
    \A i, j \in DOMAIN b :
        (i < j /\ b[i].src \in CSNames /\ b[i].src = b[j].src) => b[i].seq # b[j].seq

\* The worker hands a handler's value to the publisher as it is.
ValueForwarded(c) ==
    (SendStep(c) /\ worker[c].q = "pub") =>
        /\ pubCh' = Append(pubCh, worker[c].out)
        /\ errCh' = errCh

\* The publisher writes a number as that number, on the topic and with the
\* retain flag of the message, unless the write fails.
NumberWritten ==
    (PublishStep /\ Head(pubCh).value.t = "uint") =>
        LET m == Head(pubCh)
        IN  \/ bus' = Append(bus, BusMsg(m.topic, m.retain, JNumber(m.value.v), m.seq, m.src))
            \/ bus' = bus /\ pubPend' # <<>>

\* C3: a speed set command with a bus speed s in 0..126 on a loco of a
\* primary command station writes the device speed 0 for s = 0 and s + 1
\* otherwise to the loco's address, and when the call succeeds one message is
\* published on the loco's speed topic, retained, with payload s.
C3_SetSpeed ==
    [][/\ \A c \in CSNames, l \in LocoNames :
             (/\ ExecStep(c)
              /\ primary[l] = c
              /\ Head(hndCh[c]).TopicStrs = <<"loco", l, "speed", "set">>
              /\ Head(hndCh[c]).Value.t = "float64"
              /\ Head(hndCh[c]).Value.v \in Speeds127) =>
                 LET s == Head(hndCh[c]).Value.v
                     raw == IF s = 0 THEN 0 ELSE s + 1
                 IN  \/ worker'[c].q = "err" /\ dev' = dev
                     \/ /\ worker'[c].q = "pub"
                        /\ dev' = [dev EXCEPT ![c].locos[addr(l)].speed = raw]
                        /\ worker'[c].out.topic = SpeedEvent(l)
                        /\ worker'[c].out.retain
                        /\ worker'[c].out.value = Uint(s)
       /\ \A c \in CSNames : ValueForwarded(c)
       /\ NumberWritten
       /\ OncePerCommand(bus')]_vars

\* C3 witness: speed 80 was set, the device stands at 81 and the one message
\* on the bus is the retained speed 80.
C3_Witness ==
    /\ calc.s = 80
    /\ dev["cs01"].locos[addr("br01")].speed = 81
    /\ bus = <<BusMsg(SpeedEvent("br01"), TRUE, JNumber(80), 1, "cs01")>>

\* C9: for every bus speed s in 0..126 the device speed of s converts back to
\* s, where the device speed of 0 is 0 and of s > 0 is s + 1; the device speeds
\* 0 and 1 both convert to the bus speed 0, and d in 2..127 to d - 1.
C9_SpeedRoundTrip ==
    calc.done =>
        /\ calc.back = calc.s
        /\ calc.dev = (IF calc.s = 0 THEN 0 ELSE calc.s + 1)
        /\ calc.d \in {0, 1} => calc.ext = 0
        /\ calc.d \in 2..127 => calc.ext = calc.d - 1

\* C9 witness: the conversions were applied to the bus speed 0 and to the
\* emergency stop 1.
C9_Witness == calc.done /\ calc.s = 0 /\ calc.d = 1 /\ calc.dev = 0 /\ calc.ext = 0

SeqsOf(q) == [i \in DOMAIN q |-> q[i].seq]

\* The commands of a command station from the newest event on the bus back to
\* the last command waiting in its channel.
CommandChain(c) ==
    SeqsOf(SelectSeq(bus, LAMBDA m : m.src = c /\ m.topic # errorTopic))
    \o SeqsOf(SelectSeq(pubCh, LAMBDA m : m.src = c))
    \o (IF worker[c].pc = "send" THEN <<worker[c].out.seq>> ELSE <<>>)
    \o SeqsOf(hndCh[c])

\* C4: the commands put into the channel of one command station are executed
\* in the order they were put in, and their events are written to the bus in
\* that order: of two commands the earlier one's event comes first.
C4_CommandOrder ==
    \A c \in CSNames :
        LET chain == CommandChain(c)
        IN  \A i, j \in DOMAIN chain : i < j => chain[i] < chain[j]

\* C4 witness: two commands of one command station have their events on the
\* bus.
C4_Witness ==
    \E i, j \in DOMAIN bus :
        /\ i < j
        /\ bus[i].src = "cs01" /\ bus[j].src = "cs01"
        /\ bus[i].topic = SpeedEvent("br01") /\ bus[j].topic = SpeedEvent("br01")
        /\ bus[i].seq < bus[j].seq

\* C5: when a command station is shut down, the commands in its channel are
\* executed before its worker ends and the client connection is closed only
\* after the worker has ended: no command waits or runs on a closed connection.
C5_DrainBeforeRelease ==
    \A c \in CSNames :
        connClosed[c] => (hndCh[c] = <<>> /\ worker[c].pc # "send")

\* The dispatcher has taken a message: only Gateway.handler counts them.
HandlerStep == nSeq' = nSeq + 1

NoEntry(topic) == Tail(topic) \notin DOMAIN subs

\* C6 as claimed: a message whose topic without root has no entry in the
\* subscriptions puts no command into a channel and nothing on pubCh or errCh.
C6_NoEntryNothing ==
    [][(HandlerStep /\ NoEntry(Head(inbox).topic)) =>
          (hndCh' = hndCh /\ pubCh' = pubCh /\ errCh' = errCh /\ disp' = DispIdle)]_vars

\* C6 amended: a message whose payload is a JSON text and whose topic without
\* root has no entry puts no command into a channel and nothing on pubCh or
\* errCh; a payload that is no JSON text puts one error with the message's
\* topic on errCh, whatever the topic.
C6_NoEntryNothingIfJSON ==
    [][HandlerStep =>
          /\ (Head(inbox).payload.k # "invalid" /\ NoEntry(Head(inbox).topic)) =>
                (hndCh' = hndCh /\ pubCh' = pubCh /\ errCh' = errCh /\ disp' = DispIdle)
          /\ Head(inbox).payload.k = "invalid" =>
                /\ hndCh' = hndCh /\ pubCh' = pubCh /\ disp' = DispIdle
                /\ Len(errCh') = Len(errCh) + 1
                /\ errCh'[Len(errCh')].topic = Head(inbox).topic]_vars

\* C6 witness: messages without an entry, the gateway's own report on the
\* error topic among them, were taken and nothing waits anywhere.
C6_Witness ==
    /\ nSeq = 3
    /\ \E i \in DOMAIN bus : bus[i].topic = errorTopic /\ bus[i].src = "gw"
    /\ inbox = <<>> /\ errCh = <<>> /\ pubCh = <<>>
    /\ \A c \in CSNames : hndCh[c] = <<>> /\ dev[c] = DevInit

\* C7: when a handler returns an error, the worker puts one error message
\* with the root and the whole topic of the command on errCh, puts nothing on
\* pubCh for the command, and is ready for the next command.
C7_HandlerError ==
    [][/\ \A c \in CSNames :
             ExecStep(c) =>
                LET msg == Head(hndCh[c])
                IN  \E r \in CallFn(msg.Fn, msg.Value, dev[c], connClosed[c]) :
                       /\ dev'[c] = r.dev
                       /\ hndCh'[c] = Tail(hndCh[c])
                       /\ pubCh' = pubCh /\ errCh' = errCh
                       /\ IF r.err # Nil
                          THEN /\ worker'[c].q = "err"
                               /\ worker'[c].out.topic = <<TopicRoot>> \o msg.TopicStrs
                               /\ worker'[c].out.err = r.err
                               /\ worker'[c].out.seq = msg.seq
                          ELSE worker'[c].q = "pub"
       /\ \A c \in CSNames :
             (SendStep(c) /\ worker[c].q = "err") =>
                /\ errCh' = Append(errCh, worker[c].out)
                /\ pubCh' = pubCh
                /\ worker'[c] = WorkerIdle
       /\ OncePerCommand(bus' \o errCh' \o pubCh')]_vars

\* C7 witness: the first command of a command station failed and is reported
\* on the error topic with its whole topic, and the next command has its
\* event on the bus.
C7_Witness ==
    \E i, j \in DOMAIN bus :
        /\ i < j
        /\ bus[i].src = "cs01" /\ bus[i].topic = errorTopic
        /\ bus[i].payload.v.topic = SpeedSet("br01")
        /\ bus[j].src = "cs01" /\ bus[j].topic = SpeedEvent("br01")
        /\ bus[i].seq < bus[j].seq

\* C8: a handler that returns nil without an error causes no message on the
\* bus: no event with a null payload and no error.
C8_NilNotPublished ==
    [][/\ \A c \in CSNames :
             (/\ ExecStep(c)
              /\ ~Head(hndCh[c]).Fn.publish
              /\ dev'[c] # dev[c]) =>
                 /\ worker'[c].q = "pub"
                 /\ worker'[c].out.value = GoNil
       /\ \A c \in CSNames :
             (SendStep(c) /\ worker[c].q = "pub") => errCh' = errCh
       /\ (PublishStep /\ Head(pubCh).value = GoNil) =>
             (bus' = bus /\ inbox' = inbox /\ errCh' = errCh /\ pubPend' = <<>>)
       /\ \A i \in DOMAIN bus' : bus'[i].payload # JNull]_vars

\* C8 witness: the secondary command station has followed the speed event and
\* the nil its handler returned has gone through the publisher: nothing of the
\* secondary is on the bus.
C8_Witness ==
    /\ dev["cs02"].locos[addr("br01")].speed = 81
    /\ worker["cs02"] = WorkerIdle /\ hndCh["cs02"] = <<>>
    /\ pubCh = <<>> /\ pubPend = <<>> /\ errCh = <<>>
    /\ \A i \in DOMAIN bus : bus[i].src # "cs02"

\* What the claims call externalToDevice, deviceToExternal and the clamp into
\* the bus speeds.
ExternalToDevice(s) == IF s = 0 THEN 0 ELSE s + 1
DeviceToExternal(d) == IF d \in {0, 1} THEN 0 ELSE d - 1
Clamp(x) == IF x < 0 THEN 0 ELSE IF x > 126 THEN 126 ELSE x

\* C11: the add command with a whole number delta reads the device speed d and
\* writes the device speed of the bus speed of d plus delta clamped into
\* 0..126, for every delta and every d in 0..127; the bus speed reported is
\* that clamped speed.
C11_AddClamps ==
    [][\A c \in CSNames, l \in LocoNames :
          (/\ ExecStep(c)
           /\ primary[l] = c
           /\ Head(hndCh[c]).TopicStrs = <<"loco", l, "speed", "add">>
           /\ Head(hndCh[c]).Value.t = "float64") =>
              LET delta == Head(hndCh[c]).Value.v
                  d == dev[c].locos[addr(l)].speed
                  ext == Clamp(DeviceToExternal(d) + delta)
              IN  \/ worker'[c].q = "err" /\ dev' = dev
                  \/ /\ worker'[c].q = "pub"
                     /\ dev' = [dev EXCEPT ![c].locos[addr(l)].speed = ExternalToDevice(ext)]
                     /\ worker'[c].out.value = Uint(ext)]_vars

\* An AddLoco call of station c for loco l has returned.
AddLocoStep(c, l) == ret'.op = "AddLoco" /\ ret'.cs = c /\ ret'.loco = l

\* The event topics and the command topics of a loco, without root.
EventTopics(l) ==
    {<<"loco", l, "dir">>, <<"loco", l, "speed">>}
    \cup {<<"loco", l, f>> : f \in DOMAIN LocoConfig[l].Fcts}
CommandTopics(l) == {t \in DOMAIN subs' : Len(t) = 4 /\ t[1] = "loco" /\ t[2] = l}

OwnedBy(s, c, t) == t \in DOMAIN s /\ \E i \in DOMAIN s[t] : s[t][i].owner = c

C14_NoMatchNoChange ==
    [][\A c \in CSNames, l \in LocoNames :
          (/\ AddLocoStep(c, l)
           /\ ~includes(config[c].primary, l)
           /\ ~includes(config[c].secondary, l)) =>
              /\ ret' = Ret("AddLoco", c, l, FALSE, Nil)
              /\ primary' = primary
              /\ secondaries' = secondaries
              /\ csLocos' = csLocos
              /\ subs' = subs]_vars

\* C14 witness: a station neither filter of which includes the loco has asked
\* for it, after the loco got a primary, and holds no loco.
C14_Witness ==
    \E c \in CSNames, l \in LocoNames :
        /\ ret = Ret("AddLoco", c, l, FALSE, Nil)
        /\ ~includes(config[c].primary, l) /\ ~includes(config[c].secondary, l)
        /\ primary[l] \in CSNames \ {c}
        /\ l \notin csLocos[c]

\* C15: a filter includes a name exactly when the name matches at least one
\* include expression and no exclude expression; an exclude match overrides
\* any number of include matches, and a filter without include expression
\* includes nothing.
C15_FilterIncludes ==
    calc.done =>
        LET inclHits == {i \in DOMAIN calc.f.Incls : calc.name \in calc.f.Incls[i]}
            exclHits == {j \in DOMAIN calc.f.Excls : calc.name \in calc.f.Excls[j]}
        IN  /\ calc.res = (inclHits # {} /\ exclHits = {})
            /\ exclHits # {} => ~calc.res
            /\ calc.f.Incls = <<>> => ~calc.res

\* C15 witness: a name two include expressions and one exclude expression
\* match was found not included.
C15_Witness ==
    /\ calc.done
    /\ ~calc.res
    /\ calc.name = "br01"
    /\ calc.f = [Incls |-> <<ReBr01, ReAll>>, Excls |-> <<ReBr02, ReBr01>>]

\* A topic parse rejects: more than five levels, or a wildcard character in
\* the level of the loco name.
ReservedLevels == {"br+01"}
IllFormed(topic) ==
    \/ Len(topic) \notin 1..5
    \/ \E i \in DOMAIN topic : topic[i] \in ReservedLevels

\* C16: when the dispatcher takes a message whose topic has more than five
\* levels or a reserved character in the loco name, it puts one error message
\* for that topic on errCh, enqueues no command and is done with the message.
C16_TopicFormatError ==
    [][(HandlerStep /\ IllFormed(Head(inbox).topic)) =>
          /\ hndCh' = hndCh /\ disp' = DispIdle
          /\ Len(errCh') = Len(errCh) + 1
          /\ errCh'[Len(errCh')].topic = Head(inbox).topic]_vars

\* C17: when the dispatcher takes a message whose payload is no JSON, it puts
\* one error message with the decode error and the topic of the message on
\* errCh, and no command goes to any station, subscriptions or not.
C17_PayloadDecodeError ==
    [][(HandlerStep /\ Unmarshal(Head(inbox).payload).err # Nil) =>
          /\ errCh' = Append(errCh, ErrMsg(Head(inbox).topic, FALSE,
                                           Unmarshal(Head(inbox).payload).err, nSeq', "gw"))
          /\ hndCh' = hndCh
          /\ disp' = DispIdle]_vars

\* C17 witness: a speed command without JSON payload, on a topic the primary
\* station of the loco subscribed to, was reported on the error topic and no station
\* received a command or wrote to its device.
C17_Witness ==
    /\ Tail(SpeedSet("br01")) \in DOMAIN subs
    /\ \E i \in DOMAIN subs[Tail(SpeedSet("br01"))] :
          subs[Tail(SpeedSet("br01"))][i].hndCh = "cs01"
    /\ nExt = 1
    /\ \E i \in DOMAIN bus :
          /\ bus[i].topic = errorTopic /\ bus[i].src = "gw"
          /\ bus[i].payload.v.topic = SpeedSet("br01")
    /\ \A c \in CSNames : hndCh[c] = <<>> /\ worker[c] = WorkerIdle /\ dev[c] = DevInit

\* C18: a topic of two to five levels, each not empty and without "/", "+"
\* and "#", comes back level by level when its format is parsed; the format
\* holds the levels in order with one "/" between two neighbours.
C18_TopicRoundTrip ==
    (calc.done /\ \A i \in DOMAIN calc.levels : CheckLevelName(calc.levels[i]) = Nil) =>
        /\ calc.parsed = calc.levels
        /\ Cardinality({i \in DOMAIN calc.str : calc.str[i] = "/"}) = Len(calc.levels) - 1
        /\ SelectSeq(calc.str, LAMBDA ch : ch # "/") = topicJoinNoSep(calc.levels)

\* C18 witness: a topic of five levels that differ was formatted and parsed.
C18_Witness ==
    /\ calc.done
    /\ calc.levels = <<<<"a">>, <<"b">>, <<"b">>, <<"a">>, <<"b">>>>
    /\ calc.str = <<"a", "/", "b", "/", "b", "/", "a", "/", "b">>
    /\ calc.parsed = calc.levels

\* A name CheckLevelName rejects: empty, or with "/", "+" or "#" in it.
BadName(name) == Spelling(name) = <<>> \/ \E i \in DOMAIN Spelling(name) : Spelling(name)[i] \in {"/", "+", "#"}

\* C19: a station or a loco with a bad name never is in its set, no
\* subscription names it as owner or in its topic, no loco has it as primary
\* or secondary, no station holds it, and the call that was to create it
\* returned an error.
C19_BadNameRejected ==
    \A n \in CreateCSNames \cup CreateLocoNames :
        BadName(n) =>
            /\ n \notin DOMAIN csLocos
            /\ n \notin DOMAIN primary
            /\ n \notin DOMAIN secondaries
            /\ \A t \in DOMAIN subs :
                  /\ \A i \in DOMAIN t : t[i] # n
                  /\ \A i \in DOMAIN subs[t] : subs[t][i].owner # n /\ subs[t][i].hndCh # n
            /\ \A l \in DOMAIN primary : primary[l] # n /\ n \notin secondaries[l]
            /\ \A c \in DOMAIN csLocos : n \notin csLocos[c]
            /\ (ret.op \in {"CSSet.Add", "LocoSet.Add"} /\ n \in {ret.cs, ret.loco}) =>
                  (ret.err # Nil /\ ~ret.added /\ phase = "failed")

\* C19 witness: after a station and a loco were created, the creation of a
\* loco with "/" in its name returned the error of CheckLevelName.
C19_Witness ==
    /\ ret = Ret("LocoSet.Add", Nil, "br/1", FALSE, errInvalidTopicLevelName)
    /\ DOMAIN csLocos = {"cs01"}
    /\ DOMAIN primary = {"br01"}
    /\ <<"cs", "cs01", "temp", "get">> \in DOMAIN subs

\* The subscriptions of an inbound message all belong to station b.
AllFor(msg, b) ==
    /\ Tail(msg.topic) \in DOMAIN subs
    /\ subs[Tail(msg.topic)] # <<>>
    /\ \A i \in DOMAIN subs[Tail(msg.topic)] : subs[Tail(msg.topic)][i].hndCh = b

\* C20: no message whose subscriptions all belong to station b, whose
\* channel has room, waits while the dispatcher waits for room in the full
\* channel of another station a.
C20_BackpressureIsolated ==
    \A a \in CSNames : \A b \in CSNames \ {a} :
        ~ /\ disp.pc = "send"
          /\ disp.list[disp.i].hndCh = a
          /\ ~HasRoom(hndCh[a])
          /\ HasRoom(hndCh[b])
          /\ \E i \in DOMAIN inbox : AllFor(inbox[i], b)

\* The publisher takes a value that is not nil and the write to the broker fails.
FailedWrite == PublishStep /\ Head(pubCh).value # GoNil /\ bus' = bus
\* The publisher of errors takes a message and the write to the broker fails.
FailedErrorWrite == errCh # <<>> /\ errCh' = Tail(errCh) /\ bus' = bus

\* C21 as stated: after a failed write of a value the publisher holds no
\* message for it, the value is not queued again, and no message of the
\* publisher ever is on errCh.
C21_WriteFailureLoggedOnly ==
    [][/\ FailedWrite => (pubPend' = <<>> /\ errCh' = errCh /\ hndCh' = hndCh)
       /\ \A i \in DOMAIN errCh' : errCh'[i].src # "pub"]_vars

\* C21 amended: after a failed write of a value the publisher does not queue
\* the value again and sends one error message with the topic of the value,
\* retain off, on errCh; a failed write of an error message leaves every
\* queue but errCh, which loses the message, as it was.
C21_WriteFailureReported ==
    [][/\ FailedWrite =>
             /\ pubPend' = <<ErrMsg(Head(pubCh).topic, FALSE, "publish error",
                                    Head(pubCh).seq, "pub")>>
             /\ errCh' = errCh /\ hndCh' = hndCh
       /\ (pubPend # <<>> /\ pubPend' = <<>>) =>
             /\ errCh' = Append(errCh, pubPend[1])
             /\ pubCh' = pubCh /\ bus' = bus /\ hndCh' = hndCh
       /\ FailedErrorWrite =>
             (pubCh' = pubCh /\ pubPend' = pubPend /\ hndCh' = hndCh /\ inbox' = inbox)]_vars

\* C21 witness: the event of a speed command was not written, and the error
\* of the publisher for the event topic is on the error topic instead.
C21_Witness ==
    /\ \E i \in DOMAIN bus :
          /\ bus[i].topic = errorTopic /\ bus[i].src = "pub"
          /\ bus[i].payload.v.topic = SpeedEvent("br01")
    /\ \A i \in DOMAIN bus : bus[i].topic # SpeedEvent("br01")
    /\ pubCh = <<>> /\ pubPend = <<>> /\ errCh = <<>>

\* The payload of an error message: an object of topic and error text.
IsErrorPayload(p) == p.k = "object" /\ DOMAIN p.v = {"topic", "error"}

\* C22: on the bus, the messages on the error topic are the error messages,
\* and each was written with retain off; every other message is the value of
\* a command a station executed, not null, on a topic below "cs" or "loco",
\* written with retain on.
C22_ErrorTopicAndRetain ==
    \A i \in DOMAIN bus :
        /\ IsErrorPayload(bus[i].payload) <=> bus[i].topic = errorTopic
        /\ bus[i].topic = errorTopic => ~bus[i].retain
        /\ bus[i].topic # errorTopic =>
              /\ bus[i].retain
              /\ bus[i].src \in CSNames
              /\ bus[i].payload # JNull
              /\ bus[i].topic[1] = TopicRoot /\ bus[i].topic[2] \in {"cs", "loco"}

\* C22 witness: the bus holds the retained event of a speed command and,
\* not retained, an error on the error topic.
C22_Witness ==
    /\ \E i \in DOMAIN bus :
          bus[i].topic = SpeedEvent("br01") /\ bus[i].retain /\ bus[i].payload = JNumber(80)
    /\ \E j \in DOMAIN bus :
          bus[j].topic = errorTopic /\ ~bus[j].retain /\ bus[j].src = "gw"

\* The worker of a station has been started and has not returned: it waits
\* for a command or for room in pubCh or errCh.
WorkerRunning(c) == worker[c].pc \in {"recv", "send"}
\* The code on the way out of main calls Close on the connection of a station.
CloseStep(c) == ~connClosed[c] /\ connClosed'[c]

\* C23: the connection of a station is called by its worker only: no Close
\* of the connection is called while the worker runs, and the worker makes
\* no call into a connection Close was called on.
C23_ConnectionOwnedByWorker ==
    [][\A c \in CSNames :
          /\ CloseStep(c) => ~WorkerRunning(c)
          /\ ExecStep(c) => ~connClosed[c]]_vars

\* C24: with every task scheduled again and again, whenever a command waits
\* in a channel, the dispatcher waits for room in one or a worker holds a
\* result, a state follows in which every channel is empty, the dispatcher is
\* idle and every worker waits for a command; and a command leaves a channel
\* only when the worker takes it and calls its handler.
C24_CommandsExecute ==
    /\ (\E c \in CSNames : hndCh[c] # <<>> \/ worker[c].pc = "send" \/ disp.pc = "send")
          ~> (\A c \in CSNames : hndCh[c] = <<>> /\ worker[c].pc = "recv" /\ disp.pc = "idle")
    /\ [][\A c \in CSNames : hndCh'[c] # hndCh[c] =>
             \/ hndCh[c] # <<>> /\ hndCh'[c] = Tail(hndCh[c]) /\ ExecStep(c)
             \/ disp.pc = "send" /\ SubSeq(hndCh'[c], 1, Len(hndCh[c])) = hndCh[c]]_vars

\* C24 witness: the dispatcher waits with a speed command for room in the
\* full channel of cs01, whose worker has not taken a command yet.
C24_Witness ==
    /\ disp.pc = "send" /\ disp.list[disp.i].hndCh = "cs01"
    /\ ~HasRoom(hndCh["cs01"])
    /\ worker["cs01"] = WorkerIdle
    /\ dev["cs01"] = DevInit

\* The topics of the registry with an entry owned by station c.
OwnedTopics(s, c) == {t \in DOMAIN s : \E i \in DOMAIN s[t] : s[t][i].owner = c}

\* C25: once a station is closed, no entry of the registry is owned by it.
C25_NoEntryAfterClose ==
    \A c \in CSNames : connClosed[c] => OwnedTopics(subs, c) = {}

\* Nothing waits anywhere in the gateway.
Drained ==
    /\ inbox = <<>> /\ disp = DispIdle
    /\ \A c \in CSNames : hndCh[c] = <<>> /\ worker[c] = WorkerIdle
    /\ pubCh = <<>> /\ pubPend = <<>> /\ errCh = <<>>

\* The state of a device after the value of an event was applied to it.
Applied(d, m) ==
    CASE m.Fn.kind = "setLocoSpeed" ->
            [d EXCEPT !.locos[m.Fn.addr].speed = ExternalToDevice(m.Value.v)]
      [] m.Fn.kind = "setLocoDir" -> [d EXCEPT !.locos[m.Fn.addr].dir = m.Value.v]
      [] m.Fn.kind = "setLocoFct" -> [d EXCEPT !.locos[m.Fn.addr].fcts[m.Fn.no] = m.Value.v]

\* The value of the last message written on a topic, as a set: empty for none.
LastOn(topic) ==
    {bus[i].payload.v : i \in {k \in DOMAIN bus :
        bus[k].topic = topic /\ \A j \in DOMAIN bus : bus[j].topic = topic => j <= k}}

\* The device of station s holds for loco l the last values written on the
\* event topics of the loco.
InSync(s, l) ==
    LET d == dev[s].locos[addr(l)]
    IN  /\ \A v \in LastOn(SpeedEvent(l)) : d.speed = ExternalToDevice(v)
        /\ \A v \in LastOn(<<TopicRoot, "loco", l, "dir">>) : d.dir = v
        /\ \A f \in DOMAIN LocoConfig[l].Fcts :
              \A v \in LastOn(<<TopicRoot, "loco", l, f>>) : d.fcts[FctNo(l, f)] = v

noCommand(t) ==
    LET maxNumPart == Len(<<"root", "class", "node", "property", "command">>)
    IN  IF Len(t) = maxNumPart THEN SubSeq(t, 1, Len(t) - 1) ELSE t

C27_FiveLevels ==
    [][\A c \in CSNames :
          /\ ExecStep(c)
          /\ worker'[c].q = "pub"
          /\ Len(Head(hndCh[c]).TopicStrs) = 4
          => worker'[c].out.topic = noCommand(<<TopicRoot>> \o Head(hndCh[c]).TopicStrs)]_vars
\* How often an entry occurs in a list.
Count(list, e) == Cardinality({i \in DOMAIN list : list[i] = e})

\* The list new holds the entries of the list old as a multiset, less one
\* occurrence of the entry gone.
LessOne(old, new, gone) ==
    /\ Len(new) = Len(old) - 1
    /\ \A i \in DOMAIN old :
          Count(new, old[i]) = Count(old, old[i]) - (IF old[i] = gone THEN 1 ELSE 0)

\* C28: Unsubscribe(owner, topic) removes exactly one entry of the owner from
\* the topic's list when the owner has one there and changes nothing
\* otherwise; the entries of the other owners on the topic stay, as a
\* multiset, and the list of every other topic is unchanged.
C28_UnsubscribeFrame ==
    [][calc'.op = "Unsubscribe" =>
          LET o == calc'.owner
              t == calc'.topic
              old == ListAt(subs, t)
              new == ListAt(subs', t)
          IN  /\ IF \E i \in DOMAIN old : old[i].owner = o
                 THEN \E i \in DOMAIN old : old[i].owner = o /\ LessOne(old, new, old[i])
                 ELSE subs' = subs
              /\ \A e \in {old[i] : i \in DOMAIN old} :
                    e.owner # o => Count(new, e) = Count(old, e)
              /\ \A i \in DOMAIN new : new[i].owner # o => Count(old, new[i]) > 0
              /\ DOMAIN subs' = DOMAIN subs
              /\ \A t2 \in DOMAIN subs : t2 # t => subs'[t2] = subs[t2]]_vars

\* C28 witness: Unsubscribe has removed one of the owner's two entries on a
\* topic that another owner is subscribed to as well.
C28_Witness ==
    /\ "op" \in DOMAIN calc
    /\ calc.op = "Unsubscribe"
    /\ calc.hit
    /\ \E i, j \in DOMAIN ListAt(subs, calc.topic) :
          /\ ListAt(subs, calc.topic)[i].owner = calc.owner
          /\ ListAt(subs, calc.topic)[j].owner # calc.owner

\* C29: for an inbound message whose payload is valid JSON the dispatcher
\* puts one command on the queue of each subscription registered for the
\* topic without root, in the order of the list, each with the subscription's
\* handler, the decoded payload and the topic with its command level; no
\* other queue receives anything.
C29_OnePerSubscription ==
    [][/\ HandlerStep /\ Unmarshal(Head(inbox).payload).err = Nil =>
             LET list == ListAt(subs, Tail(Head(inbox).topic))
             IN  /\ hndCh' = hndCh
                 /\ IF list = <<>> THEN disp' = DispIdle
                    ELSE /\ disp'.pc = "send"
                         /\ disp'.i = 1
                         /\ disp'.list = list
                         /\ disp'.msg.TopicStrs = Tail(Head(inbox).topic)
                         /\ disp'.msg.Value = Unmarshal(Head(inbox).payload).value
       /\ disp.pc = "send" /\ disp' # disp =>
             LET sub == disp.list[disp.i]
             IN  /\ hndCh' = [hndCh EXCEPT ![sub.hndCh] =
                                 Append(@, HndMsg(disp.msg.TopicStrs, sub.fn,
                                                  disp.msg.Value, disp.msg.seq))]
                 /\ disp' = IF disp.i = Len(disp.list) THEN DispIdle
                            ELSE [disp EXCEPT !.i = disp.i + 1]
       /\ \A c \in CSNames :
             Len(hndCh'[c]) > Len(hndCh[c]) =>
                disp.pc = "send" /\ disp.list[disp.i].hndCh = c]_vars

\* C29 witness: an event of a loco two command stations mirror has reached
\* the queue of each of them, once, with the value 80 and the event's topic.
C29_Witness ==
    /\ disp = DispIdle
    /\ nSeq = 1
    /\ \A c \in CSNames :
          /\ Len(hndCh[c]) = 1
          /\ hndCh[c][1].TopicStrs = <<"loco", "br01", "speed">>
          /\ hndCh[c][1].Value = Float64(80)
          /\ hndCh[c][1].Fn.cs = c

\* C30: the gateway subscribes to the broker in Listen, which main calls
\* after the registration, and not before; until then no message arrives and
\* none is dispatched, and the registry a message is dispatched with is the
\* one the registration left.
C30_ListenAfterRegistration ==
    /\ [](~listening =>
            /\ inbox = <<>> /\ nExt = 0 /\ nSeq = 0 /\ disp = DispIdle
            /\ \A c \in CSNames : hndCh[c] = <<>>)
    /\ [][/\ listening' # listening =>
               phase = "registered" /\ phase' = "running" /\ listening' /\ subs' = subs
          /\ HandlerStep => listening /\ phase \in {"running", "closing"}
          /\ phase \in {"registered", "running"} /\ phase' \in {"registered", "running"} =>
               subs' = subs]_vars

\* C30 witness: after Listen a message has been dispatched to a subscription
\* made during the registration, with the registration still in place.
C30_Witness ==
    /\ listening
    /\ phase = "running"
    /\ nSeq = 1
    /\ disp = DispIdle
    /\ \E c \in CSNames, l \in LocoNames :
          /\ primary[l] = c
          /\ hndCh[c] # <<>>
          /\ Head(hndCh[c]).TopicStrs = <<"loco", l, "speed", "set">>

\* A step that is a call of Gateway.Listen in SpecListen.
ListenStep == calc'.calls = calc.calls + 1

\* C31: Listen returns nil at most once; a call on a gateway that is marked
\* as listening returns the 'already listening' error and issues no broker
\* subscription.
C31_ListenOnce ==
    /\ [](calc.oks <= 1)
    /\ [][ListenStep /\ listening =>
             /\ calc'.err = errAlreadyListening
             /\ calc'.subscribes = calc.subscribes
             /\ calc'.subscribed = calc.subscribed
             /\ listening']_vars

\* C31 witness: the second call of Listen, after one that returned nil, has
\* returned the error, with one broker subscription issued in all.
C31_Witness ==
    /\ calc.calls = 2
    /\ calc.oks = 1
    /\ calc.err = errAlreadyListening
    /\ calc.subscribes = 1
    /\ calc.subscribed

\* C37: a Listen whose broker subscription failed does not leave the gateway
\* marked as listening, and the next call of Listen issues the subscription
\* again.
C37_FailedListenRetried ==
    /\ [](listening => calc.subscribed)
    /\ [][ListenStep /\ ~calc.subscribed => calc'.subscribes = calc.subscribes + 1]_vars

\* C32: however Gateway.Close interleaves with the dispatcher, the workers
\* and the publisher, no task sends on the publish queue, the error queue or
\* a command queue after the queue was closed.
C32_NoSendOnClosed == calc.panic = Nil

\* C40: when Gateway.Close goes on to unsubscribe and disconnect, the two
\* tasks have taken every message off the publish queue and the error
\* queue, whenever the tasks started.
C40_DrainedBeforeDisconnect ==
    calc.close \in {"waited", "disconnected"} =>
        pubCh = <<>> /\ pubPend = <<>> /\ errCh = <<>>

\* The command topics of the locos in the registry: loco/<l>/<property>/<command>.
LocoCommandTopics(s) == {t \in DOMAIN s : Len(t) = 4 /\ t[1] = "loco"}

\* C33: the registry holds at most one subscription for each command topic
\* of a loco, and the owner of one that exists is the loco's primary command
\* station, so that a command reaches the queue of one station at most.
C33_OneCommandSubscription ==
    \A t \in LocoCommandTopics(subs) :
        /\ Len(subs[t]) <= 1
        /\ \A i \in DOMAIN subs[t] :
              /\ subs[t][i].owner = primary[t[2]]
              /\ subs[t][i].hndCh = primary[t[2]]

\* C33 witness: a loco has changed hands: its first primary was closed, another
\* station became the primary, and each command topic of the loco has the one
\* subscription of the new primary.
C33_Witness ==
    \E l \in LocoNames, a \in CSNames, b \in CSNames :
        /\ a # b
        /\ connClosed[a] /\ l \in csLocos[a] /\ includes(config[a].primary, l)
        /\ primary[l] = b
        /\ \A t \in LocoCommandTopics(subs) :
              t[2] = l => Len(subs[t]) = 1 /\ subs[t][1].owner = b
        /\ <<"loco", l, "speed", "add">> \in LocoCommandTopics(subs)

\* The orders deviceSets.register may visit the pairs of command station and
\* loco in: the stations in some order, the locos in some order for each.
RegisterOrders ==
    LET n == Cardinality(LocoNames)
    IN  {[k \in 1..(Cardinality(CSNames) * n) |->
             <<co[((k - 1) \div n) + 1], lo[((k - 1) \div n) + 1][((k - 1) % n) + 1]>>] :
         co \in Orders(CSNames), lo \in [1..Cardinality(CSNames) -> Orders(LocoNames)]}

\* C34: whether the registration of every pair of command station and loco
\* succeeds or fails, and after a success the primary and the secondaries of
\* every loco, are the same in whatever order the pairs are visited.
C34_OrderIndependent ==
    [][phase = "init" /\ phase' # "init" =>
          \A pairs \in RegisterOrders :
             LET r == registerR(RegState, pairs)
             IN  /\ (r.ret.err # Nil) = (phase' = "exit")
                 /\ phase' = "registered" =>
                       r.primary = primary' /\ r.secondaries = secondaries']_vars

\* C34 witness: a registration has succeeded that gave one loco a primary and
\* a secondary and left another loco without a primary.
C34_Witness ==
    /\ phase = "registered"
    /\ \E l \in LocoNames : primary[l] # Nil /\ secondaries[l] # {}
    /\ \E l \in LocoNames : primary[l] = Nil
\* C35: a speed set command writes no device speed outside 0..127, whatever
\* number its payload is, the numbers above 126 and below 0 included.
C35_RawSpeedInDomain ==
    \A c \in CSNames, a \in Addrs : dev[c].locos[a].speed \in Speeds128

\* The speed events on the bus.
SpeedEvents == SelectSeq(bus, LAMBDA m : m.topic = SpeedEvent("br01"))

\* C36: an add command reads and writes the device speed with no other device
\* call of the station in between: the device of a station changes only in
\* the one call of a handler by the station's worker, an add that succeeds
\* writes the speed it read plus its delta, clamped, and after two adds d1 and
\* d2 from the bus speed s have both been executed and published the bus
\* speed is clamp(clamp(s + d1) + d2).
C36_NoLostUpdate ==
    /\ [](nExt = 2 /\ Drained /\ Len(SpeedEvents) = 2 =>
            LET s == DeviceToExternal(calc.d)
                end == Clamp(Clamp(s + calc.s) + calc.s2)
            IN  /\ DeviceToExternal(dev["cs01"].locos[addr("br01")].speed) = end
                /\ SpeedEvents[1].payload = JNumber(Clamp(s + calc.s))
                /\ SpeedEvents[2].payload = JNumber(end))
    /\ [][\A c \in CSNames :
            /\ dev'[c] # dev[c] => ExecStep(c)
            /\ ExecStep(c) /\ worker'[c].q = "pub" =>
                  LET delta == Head(hndCh[c]).Value.v
                      a == Head(hndCh[c]).Fn.addr
                  IN  dev'[c] = [dev[c] EXCEPT !.locos[a].speed =
                         ExternalToDevice(Clamp(DeviceToExternal(dev[c].locos[a].speed) + delta))]
         ]_vars

\* C36 witness: from the device speed 81 the adds 126 and -1 were executed and
\* published; the bus speed is 125, where an update lost to the first add
\* would have left 79 and clamping once at the end 126.
C36_Witness ==
    /\ calc = AddTwoCalc(126, -1, 81)
    /\ nExt = 2 /\ Drained /\ Len(SpeedEvents) = 2
    /\ dev["cs01"].locos[addr("br01")].speed = 126
    /\ SpeedEvents[2].payload = JNumber(125)

\* The command has a payload of another type than its handler takes.
WrongType(m) ==
    \/ m.Fn.kind \in {"setLocoSpeed", "addLocoSpeed"} /\ m.Value.t # "float64"
    \/ m.Fn.kind \in {"setLocoDir", "setLocoFct", "setMTE"} /\ m.Value.t # "bool"

\* C38: a command whose payload has the wrong JSON type for its handler makes
\* no device call and leaves the device as it is; the handler returns an
\* error, the worker sends one error message with the command's topic to the
\* error queue, and no event is published for the command.
C38_WrongTypeRejected ==
    [][/\ \A c \in CSNames :
             ExecStep(c) /\ WrongType(Head(hndCh[c])) =>
                LET msg == Head(hndCh[c])
                IN  /\ dev' = dev
                    /\ worker'[c].q = "err"
                    /\ worker'[c].out.topic = <<TopicRoot>> \o msg.TopicStrs
                    /\ worker'[c].out.err # DeviceErr
                    /\ worker'[c].out.seq = msg.seq
                    /\ pubCh' = pubCh /\ errCh' = errCh
       /\ \A c \in CSNames :
             SendStep(c) /\ worker[c].q = "err" =>
                errCh' = Append(errCh, worker[c].out) /\ pubCh' = pubCh
       /\ OncePerCommand(bus' \o errCh' \o pubCh')]_vars

\* C38 witness: the direction command with the payload 1 has its error on the
\* bus, with the command's topic; nothing else was written and the devices
\* are as they were.
C38_Witness ==
    /\ Drained
    /\ Len(bus) = 1
    /\ bus[1].topic = errorTopic
    /\ bus[1].src = "cs01"
    /\ bus[1].payload.v.topic = DirSet("br01")
    /\ bus[1].payload.v.error = "setLocoDir: invalid dir type"
    /\ \A c \in CSNames : dev[c] = DevInit

\* C39: after any sequence of AddLoco calls and closes the loco set of a
\* command station holds a loco exactly when the station is the loco's primary
\* or one of its secondaries, and an AddLoco that fails changes neither the
\* station's loco set nor the loco's ownership nor the registry.
C39_LocoSetMatchesOwnership ==
    /\ [](\A c \in CSNames, l \in LocoNames :
             l \in csLocos[c] <=> (primary[l] = c \/ c \in secondaries[l]))
    /\ [][\A c \in CSNames, l \in LocoNames :
             AddLocoStep(c, l) /\ ret'.err # Nil =>
                /\ csLocos' = csLocos /\ primary' = primary
                /\ secondaries' = secondaries /\ subs' = subs]_vars

\* The second half of C39 alone: a failed AddLoco changes nothing.
C39_FailedAddLocoNoChange ==
    [][\A c \in CSNames, l \in LocoNames :
          AddLocoStep(c, l) /\ ret'.err # Nil =>
             /\ csLocos' = csLocos /\ primary' = primary
             /\ secondaries' = secondaries /\ subs' = subs]_vars

====
